---- MODULE Spec2Model ----
(***************************************************************************)
(* Model of the $group stage builder of                                    *)
(* src/mongo/db/query/stage_builder/sbe/gen_group.cpp.                     *)
(*                                                                         *)
(* One behaviour is one call of SlotBasedStageBuilder::buildGroup: the     *)
(* GroupNode, the parent's requirements and the environment are chosen in  *)
(* Init, and each action is one step of buildGroup / buildGroupImpl.  The  *)
(* compiled pipeline is kept as the list of emitted stages together with   *)
(* the defining expression of every slot, so that the value a compiled     *)
(* slot takes on an input row can be computed from the pipeline itself.    *)
(***************************************************************************)
EXTENDS Integers, Sequences, FiniteSets, TLC

VARIABLES groupNode, reqs, env, pc, err, needsMerge, stage, slotDef,
          childOutputs, loc, ret

vars == <<groupNode, reqs, env, pc, err, needsMerge, stage, slotDef,
          childOutputs, loc, ret>>

(***************************************************************************)
(* Bounds of the model.                                                    *)
(***************************************************************************)
MaxAccs == 2

MaxKeyParts == 2

MaxGroupRows == 2

(***************************************************************************)
(* Terms.  MQL expressions, compiled SbExprs and runtime values all have   *)
(* the shape [h, s, n, args]: a head, a string payload, an integer payload *)
(* and the list of sub-terms.                                              *)
(***************************************************************************)
T(h, s, n, args) == [h |-> h, s |-> s, n |-> n, args |-> args]

None == <<>>

Some(x) == <<x>>

RECURSIVE SeqToSet(_)
SeqToSet(q) == IF q = <<>> THEN {} ELSE {Head(q)} \cup SeqToSet(Tail(q))

RECURSIVE Flatten(_)
Flatten(qq) == IF qq = <<>> THEN <<>> ELSE Head(qq) \o Flatten(Tail(qq))

RECURSIVE SumSeq(_)
SumSeq(q) == IF q = <<>> THEN 0 ELSE Head(q) + SumSeq(Tail(q))

SeqsUpTo(S, n) == UNION {[1..k -> S] : k \in 0..n}

\* Runtime values.
Missing == T("val", "missing", 0, <<>>)

Null == T("val", "null", 0, <<>>)

V1 == T("val", "v1", 0, <<>>)

V2 == T("val", "v2", 0, <<>>)

ArrV == T("arr", "", 0, <<>>)

Fld(name, v) == T("fld", name, 0, <<v>>)

Obj(flds) == T("obj", "", 0, flds)

EmptyObj == Obj(<<>>)

\* MQL expressions of the GroupNode (Expression subclasses).
MqlConst(v) == T("mqlConst", "", 0, <<v>>)

MqlField(top, rest) == T("mqlField", top, 0, [i \in 1..Len(rest) |-> T("comp", rest[i], 0, <<>>)])

\* The variable an ExpressionFieldPath starts from: the current document
\* (Variables::kRootId), a built-in variable, or a user-defined variable.
RootId == 0

BuiltinVarId == 1

UserVarId == 2

\* A field path on a variable; without a top-level field it is the variable itself.
MqlVarField(varId, top, rest) == [MqlField(top, rest) EXCEPT !.n = varId]

MqlRoot == MqlVarField(RootId, "", <<>>)

MqlCall(fn, e) == T("mqlCall", fn, 0, <<e>>)

MqlObject(names, es) == T("mqlObject", "", 0, [i \in 1..Len(es) |-> Fld(names[i], es[i])])

\* Compiled expressions (SbExpr).
NullExpr == T("nullExpr", "", 0, <<>>)

Slot(n) == T("slot", "", n, <<>>)

Const(v) == T("const", "", 0, <<v>>)

IsNullExpr(e) == e.h = "nullExpr"

(***************************************************************************)
(* Inputs: accumulation statements.  The AccumOp of a statement is part of *)
(* the accumulator catalogue outside this file; its answers (getNumAggs,   *)
(* hasBuildAddBlockExprs, hasBuildAddBlockAggs, whether buildAddBlockExprs *)
(* and buildAddBlockAggs return a result, whether buildFinalize returns an *)
(* expression) are attributes of the statement.                            *)
(***************************************************************************)
AccKind(op, numAggs, argument, initConst, isN, hbe, hba, beOk, baOk, finTrivial) ==
    [op |-> op, numAggs |-> numAggs, argument |-> argument, initConst |-> initConst,
     isAccumulatorN |-> isN, hasBuildAddBlockExprs |-> hbe, hasBuildAddBlockAggs |-> hba,
     blockExprsOk |-> beOk, blockAggsOk |-> baOk, finalizeTrivial |-> finTrivial,
     sortPlan |-> None,
     \* The number of expressions buildInitialize, buildAddAggs (or
     \* buildAddBlockAggs) and buildCombineAggs return, and whether
     \* buildAddBlockAggs leaves the blockAgg of its result null.
     numInits |-> numAggs, numUpdates |-> numAggs, numCombine |-> numAggs,
     nullBlockAgg |-> FALSE]

\* The sort pattern of an order-sensitive accumulator: the top-level fields of its
\* parts, in order, and whether two parts have a common prefix.
SortPattern(parts, commonPrefix) ==
    [parts |-> parts, hasPartsWithCommonPrefix |-> commonPrefix]

\* The plan makeSortKeysPlan returns for the statement's sort pattern: the parts
\* are traversed field by field, which needs their top-level fields in slots,
\* unless two parts have a common prefix or there is no part; then the key is
\* generated from the result object.
MakeSortKeysPlan(sortPattern) ==
    IF ~sortPattern.hasPartsWithCommonPrefix /\ sortPattern.parts # <<>>
    THEN [type |-> "kTraverseFields", needsResultObj |-> FALSE,
          fieldsForSortKeys |-> {sortPattern.parts[i] : i \in 1..Len(sortPattern.parts)},
          sortPattern |-> sortPattern]
    ELSE [type |-> "kCallGenCheapSortKey", needsResultObj |-> TRUE,
          fieldsForSortKeys |-> {}, sortPattern |-> sortPattern]

FieldA == MqlField("a", <<>>)

FieldB == MqlField("b", <<>>)

PathAC == MqlField("a", <<"c">>)

PathBD == MqlField("b", <<"d">>)

BuiltinPathAE == MqlVarField(BuiltinVarId, "a", <<"e">>)

UserPathAC == MqlVarField(UserVarId, "a", <<"c">>)

AccMin == AccKind("min", 1, FieldB, TRUE, FALSE, TRUE, TRUE, TRUE, TRUE, FALSE)

AccAvg == AccKind("avg", 2, PathAC, TRUE, FALSE, TRUE, TRUE, TRUE, TRUE, FALSE)

AccFirst == AccKind("first", 1, FieldB, TRUE, FALSE, TRUE, FALSE, TRUE, TRUE, TRUE)

AccPush == AccKind("push", 1, FieldA, TRUE, FALSE, FALSE, TRUE, TRUE, TRUE, FALSE)

AccSum == AccKind("sum", 1, FieldB, TRUE, FALSE, TRUE, TRUE, FALSE, TRUE, FALSE)

AccCount == AccKind("count", 1, MqlConst(V1), TRUE, FALSE, TRUE, TRUE, TRUE, FALSE, FALSE)

AccTopN ==
    [AccKind("topN", 1, FieldA, FALSE, TRUE, TRUE, TRUE, TRUE, TRUE, FALSE)
        EXCEPT !.sortPlan = Some(MakeSortKeysPlan(SortPattern(<<"b">>, FALSE)))]

AccBottomN ==
    [AccTopN EXCEPT !.op = "bottomN", !.initConst = TRUE,
                    !.sortPlan = Some(MakeSortKeysPlan(SortPattern(<<"a", "b">>, FALSE)))]

AccTopCheap ==
    [AccTopN EXCEPT !.op = "top",
                    !.sortPlan = Some(MakeSortKeysPlan(SortPattern(<<"b", "b">>, TRUE)))]

AccKinds == {AccMin, AccAvg, AccFirst, AccPush, AccSum, AccCount, AccTopN}

\* Accumulators whose builders break their contract: the lists they return do not
\* have getNumAggs elements, or a block aggregate is left null.
AccBadInit == [AccMin EXCEPT !.op = "badInit", !.numInits = 2]

AccBadCombine == [AccAvg EXCEPT !.op = "badCombine", !.numCombine = 1]

AccNoAggs == [AccMin EXCEPT !.op = "noAggs", !.numAggs = 0, !.numInits = 0,
                            !.numUpdates = 0, !.numCombine = 0]

AccNullBlockAgg == [AccMin EXCEPT !.op = "nullBlockAgg", !.nullBlockAgg = TRUE]

\* An accumulator whose initializer and update lists agree with each other but
\* are longer than getNumAggs.
AccExtraUpdate == [AccMin EXCEPT !.op = "extraUpdate", !.numInits = 2, !.numUpdates = 2]

AccNames == <<"x", "y", "z", "w">>

\* The statements of a GroupNode: kinds in declaration order, named by position.
AccStmts(kinds) == [i \in 1..Len(kinds) |-> [fieldName |-> AccNames[i], acc |-> kinds[i]]]

AccLists == {AccStmts(ks) : ks \in SeqsUpTo(AccKinds, MaxAccs)}

ShortAccLists == {AccStmts(ks) : ks \in SeqsUpTo({AccMin, AccTopN, AccSum}, 1)}

AccMinBD == [AccMin EXCEPT !.argument = PathBD]

AccSumBuiltin == [AccSum EXCEPT !.argument = BuiltinPathAE]

AccPushRoot == [AccPush EXCEPT !.argument = MqlRoot]

PathAccLists ==
    {AccStmts(ks) : ks \in {<<>>, <<AccAvg>>, <<AccMinBD>>, <<AccSumBuiltin>>,
                            <<AccAvg, AccMinBD>>, <<AccAvg, AccSumBuiltin>>,
                            <<AccMinBD, AccAvg>>}}

SortAccLists ==
    {AccStmts(ks) : ks \in {<<AccMin>>, <<AccTopN>>, <<AccBottomN>>, <<AccTopCheap>>,
                            <<AccMin, AccTopCheap>>, <<AccMin, AccBottomN>>,
                            <<AccTopN, AccMin>>, <<AccTopCheap, AccBottomN>>,
                            <<AccBottomN, AccTopN>>}}

DefectiveAccLists ==
    {AccStmts(ks) : ks \in {<<AccMin, AccBadInit>>, <<AccCount, AccBadInit>>,
                            <<AccAvg, AccBadCombine>>, <<AccBadCombine, AccMin>>,
                            <<AccNoAggs>>, <<AccMin, AccNullBlockAgg>>,
                            <<AccAvg, AccExtraUpdate>>}}

(***************************************************************************)
(* Inputs: group-by keys.  A key is a single expression or an              *)
(* ExpressionObject of 0..MaxKeyParts named parts.                         *)
(***************************************************************************)
KeyNames == <<"g", "h", "k", "m">>

SingleKeys == {FieldA, PathAC, MqlCall("nv", FieldB), MqlConst(V1), MqlConst(EmptyObj)}

KeyParts == {FieldA, MqlCall("nv", FieldB)}

ObjectKeys == {MqlObject(KeyNames, ps) : ps \in SeqsUpTo(KeyParts, MaxKeyParts)}

Keys == SingleKeys \cup ObjectKeys

FewKeys == {FieldA, MqlObject(KeyNames, <<FieldA, PathAC>>)}

PathKeys == {PathAC, UserPathAC, MqlObject(KeyNames, <<PathAC, PathBD>>),
             MqlObject(KeyNames, <<BuiltinPathAE, PathBD>>)}

GroupNodeOf(key, accs, whole, merged) ==
    [groupByExpression |-> key, accumulators |-> accs, needWholeDocument |-> whole,
     willBeMerged |-> merged, shouldProduceBson |-> FALSE, hasEffects |-> TRUE]

(***************************************************************************)
(* Inputs: the environment (feature flags, collator, what the child stage  *)
(* delivers, the caller's needsMerge) and the parent's requirements.       *)
(***************************************************************************)
\* 'finalizeFails' says whether an accumulator's buildFinalize raises an invariant
\* violation.
EnvOf(flag, collator, childBlock, scalarFields, vecConst, nm) ==
    [featureFlagsAllowBlockHashAgg |-> flag, collator |-> collator,
     childBlock |-> childBlock, scalarFields |-> scalarFields,
     vecConst |-> vecConst, needsMerge |-> nm, finalizeFails |-> FALSE]

Envs == {EnvOf(TRUE, FALSE, FALSE, {}, TRUE, TRUE),
         EnvOf(TRUE, FALSE, TRUE, {}, TRUE, TRUE),
         EnvOf(TRUE, FALSE, TRUE, {"a"}, FALSE, TRUE),
         EnvOf(TRUE, FALSE, TRUE, {"a", "b"}, TRUE, FALSE),
         EnvOf(TRUE, TRUE, TRUE, {"a"}, TRUE, TRUE),
         EnvOf(FALSE, FALSE, TRUE, {"a"}, TRUE, TRUE),
         [EnvOf(TRUE, FALSE, TRUE, {"a"}, TRUE, TRUE) EXCEPT !.finalizeFails = TRUE]}

ReqPaths == {<<"_id">>, <<"x">>, <<"x", "q">>, <<"w">>, <<"w", "q">>}

\* 'effectsCompose' says whether composeEffectsForResultInfo succeeds on the
\* group's effects and the effects of the requirement.
ReqsOf(sortKeys, recordId, fields, resultObj, resultInfo, effectsCompose) ==
    [hasSortKeys |-> sortKeys, hasRecordId |-> recordId, fields |-> fields,
     hasResultObj |-> resultObj, hasResultInfo |-> resultInfo,
     effectsCompose |-> effectsCompose,
     trackedFields |-> IF resultInfo THEN {"_id", "x", "w"} ELSE {}]

DefaultReqs == ReqsOf(FALSE, FALSE, {<<"x">>, <<"w", "q">>}, TRUE, FALSE, FALSE)

ReqFieldSets == {fs \in SUBSET ReqPaths : Cardinality(fs) <= 1} \cup
                {{<<"x">>, <<"x", "q">>, <<"w">>, <<"w", "q">>},
                 ReqPaths \cup {<<"_id", "q">>}}

AllReqs ==
    UNION {{ReqsOf(sk, rid, fs, ro, ri, ec) :
               sk \in BOOLEAN, rid \in BOOLEAN, fs \in ReqFieldSets, ro \in BOOLEAN,
               ec \in IF ri THEN BOOLEAN ELSE {FALSE}} : ri \in BOOLEAN}

(***************************************************************************)
(* PlanStageSlots and the stages of the pipeline.                          *)
(***************************************************************************)
EmptyFn == [x \in {} |-> 0]

EmptySlots == [fields |-> EmptyFn, blockFields |-> {}, pathExprs |-> EmptyFn,
               resultObj |-> None, bitmap |-> None]

HasBlockOutput(outputs) == outputs.bitmap # None

StageRec(kind, keys, outs) ==
    [kind |-> kind, keys |-> keys, outs |-> outs, args |-> <<>>, data |-> <<>>,
     bitmap |-> None, sel |-> None, collator |-> FALSE, aggs |-> <<>>, merges |-> <<>>]

NothingSlot == 1

EmptyObjSlot == 2

InitSlotDef == <<Const(Missing), Const(EmptyObj)>>

LocInit ==
    [groupByExprs |-> <<>>, idIsSingleKey |-> FALSE, vectorizedGroupByExprs |-> FALSE,
     hasVariableGroupInit |-> FALSE, slotIdForInitRoot |-> None, individualSlots |-> <<>>,
     tryToUseBlockHashAgg |-> FALSE, useBlockHashAgg |-> FALSE, sbAggExprs |-> None,
     blockAccExprs |-> <<>>, accumulatorDataSlots |-> <<>>, bitmapInternalSlot |-> None,
     initRootSlot |-> None, mergingExprs |-> <<>>,
     idConstantValue |-> None, groupByOutSlots |-> <<>>, aggOutSlots |-> <<>>,
     outputs |-> EmptySlots, fieldNames |-> <<>>, finalSlots |-> <<>>,
     needsMergeInFinal |-> None, needsMergeGuard |-> None, childReqs |-> None]

RetInit == [fields |-> EmptyFn, resultObj |-> None, resultInfoBaseObj |-> None,
            resultInfoEffects |-> None]

TypeOK ==
    /\ pc \in {"start", "paths", "keys", "decide", "attempt", "close", "rowaggs",
               "initroot", "merge", "agg", "post", "final", "finalizing", "finish", "done",
               "aborted"}
    /\ needsMerge \in BOOLEAN
    /\ err \in Nat

Init ==
    /\ \/ /\ groupNode \in {[GroupNodeOf(k, as, FALSE, TRUE)
                                 EXCEPT !.shouldProduceBson = bson] :
                              k \in Keys, as \in ShortAccLists, bson \in BOOLEAN}
          /\ env \in Envs
          /\ reqs = DefaultReqs
       \/ /\ groupNode \in {GroupNodeOf(k, as, w, TRUE) :
                              k \in FewKeys, as \in AccLists, w \in {FALSE}}
          /\ env \in Envs
          /\ reqs = DefaultReqs
       \/ /\ groupNode \in {[GroupNodeOf(FieldA, AccStmts(<<AccMin, AccAvg>>), w, m)
                                 EXCEPT !.hasEffects = e] :
                              w \in BOOLEAN, m \in BOOLEAN, e \in BOOLEAN}
          /\ env \in Envs
          /\ reqs \in AllReqs
       \/ /\ groupNode \in {GroupNodeOf(FieldA, as, w, TRUE) :
                              as \in SortAccLists, w \in BOOLEAN}
          /\ env \in Envs
          /\ reqs = DefaultReqs
       \/ /\ groupNode \in
                {GroupNodeOf(k, as, FALSE, TRUE) : k \in PathKeys, as \in PathAccLists} \cup
                {GroupNodeOf(k, AccStmts(<<AccPushRoot, AccAvg>>), TRUE, TRUE) :
                    k \in {FieldA, PathAC}}
          /\ env \in Envs
          /\ reqs = DefaultReqs
       \/ /\ groupNode \in {GroupNodeOf(FieldA, as, FALSE, TRUE) : as \in DefectiveAccLists}
          /\ env \in Envs
          /\ reqs = DefaultReqs
    /\ pc = "start"
    /\ err = 0
    /\ needsMerge = env.needsMerge
    /\ stage = <<>>
    /\ slotDef = InitSlotDef
    /\ childOutputs = EmptySlots
    /\ loc = LocInit
    /\ ret = RetInit

(***************************************************************************)
(* Helpers of the stage builder that live outside gen_group.cpp.           *)
(***************************************************************************)
FieldOrder == <<"a", "b">>

PathOf(e) == <<e.s>> \o [i \in 1..Len(e.args) |-> e.args[i].s]

RECURSIVE FieldRefs(_)
FieldRefs(e) ==
    IF e.h = "mqlField" THEN {e}
    ELSE IF e.h \in {"mqlCall", "mqlObject", "fld"}
         THEN UNION {FieldRefs(e.args[i]) : i \in 1..Len(e.args)}
         ELSE {}

\* The ExpressionFieldPaths under an expression in the order the walker visits them.
RECURSIVE FieldRefSeq(_)
FieldRefSeq(e) ==
    IF e.h = "mqlField" THEN <<e>>
    ELSE IF e.h \in {"mqlCall", "mqlObject", "fld"}
         THEN Flatten([i \in 1..Len(e.args) |-> FieldRefSeq(e.args[i])])
         ELSE <<>>

\* The length of the FieldPath, which starts with the name of the variable.
PathLength(e) == IF e.s = "" THEN 1 ELSE 2 + Len(e.args)

IsVariableReference(e) == e.n = UserVarId

\* Every ExpressionFieldPath under the key and the accumulator arguments.
GroupFieldRefs(gn) ==
    FieldRefs(gn.groupByExpression) \cup
    UNION {FieldRefs(gn.accumulators[i].acc.argument) : i \in 1..Len(gn.accumulators)}

RECURSIVE SetToSeq(_)
SetToSeq(S) == IF S = {} THEN <<>> ELSE LET x == CHOOSE y \in S : TRUE
                                        IN <<x>> \o SetToSeq(S \ {x})

\* generateExpression: an ExpressionFieldPath reads the kPathExpr slot or the
\* kField slot when 'outputs' has one, and otherwise traverses the result object.
RECURSIVE GenExpr(_, _)
GenExpr(e, outputs) ==
    CASE e.h = "mqlConst" -> Const(e.args[1])
      [] e.h = "mqlCall" -> T("call", e.s, 0, <<GenExpr(e.args[1], outputs)>>)
      [] e.h = "mqlField" /\ e.n # RootId ->
           LET var == T("variable", "", e.n, <<>>)
           IN IF e.s = "" THEN var
              ELSE IF e.args = <<>> THEN T("getField", e.s, 0, <<var>>)
              ELSE T("traverse", "", 0, <<T("getField", e.s, 0, <<var>>)>> \o e.args)
      [] e.h = "mqlField" /\ e.s = "" -> Slot(outputs.resultObj[1])
      [] e.h = "mqlField" ->
           LET base == IF e.s \in DOMAIN outputs.fields
                       THEN Slot(outputs.fields[e.s])
                       ELSE T("getField", e.s, 0, <<Slot(outputs.resultObj[1])>>)
           IN IF e.args = <<>> THEN base
              ELSE IF PathOf(e) \in DOMAIN outputs.pathExprs
                   THEN Slot(outputs.pathExprs[PathOf(e)])
                   ELSE T("traverse", "", 0, <<base>> \o e.args)
      [] OTHER -> NullExpr

MakeFillEmptyNull(e) == T("fillEmpty", "", 0, <<e, Const(Null)>>)

\* buildVectorizedExpr: the vectorized form of 'e', or the null SbExpr.
RECURSIVE CanVectorize(_, _)
CanVectorize(e, vecConst) ==
    CASE e.h = "const" -> vecConst
      [] e.h = "call" /\ e.s = "nv" -> FALSE
      [] OTHER -> \A i \in 1..Len(e.args) : CanVectorize(e.args[i], vecConst)

BuildVectorizedExpr(e, vecConst) ==
    IF CanVectorize(e, vecConst) THEN T("vec", "", 0, <<e>>) ELSE NullExpr

\* SbExpr::optimize: constant folding.
Optimize(e) ==
    IF e.h = "fillEmpty" /\ e.args[1].h = "const"
    THEN IF e.args[1].args[1] = Missing THEN e.args[2] ELSE e.args[1]
    ELSE e

IsConstantExpr(e) == e.h = "const"

Proj(e, target) == [expr |-> e, target |-> target]

RECURSIVE ProjAcc(_, _, _, _)
ProjAcc(projects, sd, outs, bound) ==
    IF projects = <<>> THEN [sd |-> sd, outs |-> outs, bound |-> bound]
    ELSE LET p == Head(projects)
         IN IF p.expr.h = "slot" /\ (p.target = None \/ p.target[1] = p.expr.n)
            THEN ProjAcc(Tail(projects), sd, Append(outs, p.expr.n), bound)
            ELSE IF p.target # None
                 THEN ProjAcc(Tail(projects), [sd EXCEPT ![p.target[1]] = p.expr],
                              Append(outs, p.target[1]), Append(bound, p.target[1]))
                 ELSE ProjAcc(Tail(projects), Append(sd, p.expr),
                              Append(outs, Len(sd) + 1), Append(bound, Len(sd) + 1))

\* SbBuilder::makeProject: one output slot per projection; an expression that is
\* already a slot is passed through, and a ProjectStage is emitted for the rest.
MakeProject(st, sd, projects) ==
    LET r == ProjAcc(projects, sd, <<>>, <<>>)
    IN [stage |-> IF r.bound = <<>> THEN st
                  ELSE Append(st, StageRec("project", <<>>, r.bound)),
        sd |-> r.sd, outs |-> r.outs]

\* buildBlockToRow: unpacks the block slots of 'outputs' and the 'extra' slots into
\* row slots and clears the selectivity bitmap, so 'outputs' has no block output.
BuildBlockToRow(st, sd, outputs, extra) ==
    LET blk == SetToSeq(outputs.blockFields)
        ins == [i \in 1..Len(blk) |-> outputs.fields[blk[i]]] \o extra
        news == [i \in 1..Len(ins) |-> Len(sd) + i]
        pos(name) == CHOOSE i \in 1..Len(blk) : blk[i] = name
    IN [stage |-> Append(st, [StageRec("block_to_row", ins, news)
                                 EXCEPT !.sel = outputs.bitmap]),
        sd |-> sd \o [i \in 1..Len(ins) |-> T("b2r", "", 0, <<Slot(ins[i])>>)],
        outputs |-> [outputs EXCEPT
                        !.fields = [n \in DOMAIN outputs.fields |->
                                      IF n \in outputs.blockFields
                                      THEN news[pos(n)] ELSE outputs.fields[n]],
                        !.blockFields = {},
                        !.bitmap = None],
        outs |-> [i \in 1..Len(extra) |-> news[Len(blk) + i]]]

(***************************************************************************)
(* computeChildReqsForGroup and the child build.                           *)
(***************************************************************************)
GetTopLevelFields(gn) ==
    {e.s : e \in {f \in GroupFieldRefs(gn) : f.n = RootId /\ f.s # ""}}

SortPlans(gn) ==
    {gn.accumulators[i].acc.sortPlan[1] :
        i \in {j \in 1..Len(gn.accumulators) : gn.accumulators[j].acc.sortPlan # None}}

\* The name of a requested field: the components of its path joined by dots.
RECURSIVE DottedName(_)
DottedName(path) ==
    IF Len(path) = 1 THEN path[1] ELSE path[1] \o "." \o DottedName(Tail(path))

\* PlanStageReqs: copyForChild, setResultObj, clearAllFields, setFields, clearResult.
CopyForChild(r) ==
    [fields |-> {DottedName(p) : p \in r.fields}, result |-> r.hasResultObj]

SetResultObj(cr) == [cr EXCEPT !.result = TRUE]

ClearAllFields(cr) == [cr EXCEPT !.fields = {}]

SetFields(cr, fs) == [cr EXCEPT !.fields = @ \cup fs]

ClearResult(cr) == [cr EXCEPT !.result = FALSE]

\* Mutant: the result requirement is dropped whenever the group does not need the
\* whole document, whatever the sort key plans need.
ComputeChildReqsForGroup_AlwaysClear(r, gn) ==
    LET c1 == SetFields(ClearAllFields(SetResultObj(CopyForChild(r))),
                        GetTopLevelFields(gn))
    IN IF gn.needWholeDocument THEN c1
       ELSE ClearResult(SetFields(c1, UNION {p.fieldsForSortKeys : p \in SortPlans(gn)}))

\* Mutant: the field requirements copied from the parent are not cleared.
ComputeChildReqsForGroup_KeepFields(r, gn) ==
    LET c1 == SetFields(SetResultObj(CopyForChild(r)), GetTopLevelFields(gn))
    IN IF gn.needWholeDocument THEN c1
       ELSE LET c2 == SetFields(c1, UNION {p.fieldsForSortKeys : p \in SortPlans(gn)})
            IN IF \E p \in SortPlans(gn) : p.needsResultObj THEN c2
               ELSE ClearResult(c2)

ComputeChildReqsForGroup(r, gn) ==
    LET childReqs == ClearAllFields(SetResultObj(CopyForChild(r)))
        c1 == SetFields(childReqs, GetTopLevelFields(gn))
    IN IF gn.needWholeDocument THEN c1
       ELSE LET c2 == SetFields(c1, UNION {p.fieldsForSortKeys : p \in SortPlans(gn)})
                sortKeysNeedRootDoc == \E p \in SortPlans(gn) : p.needsResultObj
            IN IF sortKeysNeedRootDoc THEN c2 ELSE ClearResult(c2)

\* build(childNode, childReqs): the child delivers a slot per requested field, the
\* result object if asked for, and block output only if it was allowed to.
BuildChild(sd, childReqs, e) ==
    LET names == SelectSeq(FieldOrder, LAMBDA n : n \in childReqs.fields) \o
                 SetToSeq({n \in childReqs.fields :
                              \A i \in 1..Len(FieldOrder) : FieldOrder[i] # n})
        isBlock == childReqs.canProcessBlockValues /\ e.childBlock
        nf == Len(names)
        fieldSlot(name) == Len(sd) + (CHOOSE i \in 1..nf : names[i] = name)
        extra == (IF childReqs.result THEN <<T("root", "", 0, <<>>)>> ELSE <<>>) \o
                 (IF isBlock THEN <<T("bitmap", "", 0, <<>>)>> ELSE <<>>)
        \* n = 1 marks a slot whose type signature is a block.
        typ(name) == IF isBlock /\ name \notin e.scalarFields THEN 1 ELSE 0
    IN [sd |-> sd \o [i \in 1..nf |-> T("field", names[i], typ(names[i]), <<>>)] \o extra,
        outputs |-> [fields |-> [n \in childReqs.fields |-> fieldSlot(n)],
                     blockFields |-> IF isBlock THEN childReqs.fields \ e.scalarFields
                                     ELSE {},
                     pathExprs |-> EmptyFn,
                     resultObj |-> IF childReqs.result THEN Some(Len(sd) + nf + 1) ELSE None,
                     bitmap |-> IF isBlock THEN Some(Len(sd) + nf + Len(extra)) ELSE None]]

\* Mutant: the record id requirement is not checked.
EntryError_NoRecordId(r) == IF r.hasSortKeys THEN 6023414 ELSE 0

\* The checks at the top of buildGroup: the code of the violated one, or 0.
EntryError(r) ==
    IF r.hasSortKeys THEN 6023414
    ELSE IF r.hasRecordId THEN 6360401
    ELSE 0

Abort(code) ==
    /\ pc' = "aborted"
    /\ err' = code

\* Mutant: the child may always process block values.
CanProcessBlockValues_Always(childReqs) == TRUE

\* Lines 1225-1226: the child may process block values iff the requirements for
\* it do not ask for the result object.
CanProcessBlockValues(childReqs) == ~childReqs.result

BuildGroupEntry ==
    /\ pc = "start"
    /\ IF EntryError(reqs) # 0
       THEN /\ Abort(EntryError(reqs))
            /\ UNCHANGED <<stage, slotDef, childOutputs, loc>>
       ELSE LET cr0 == ComputeChildReqsForGroup(reqs, groupNode)
                childReqs == [fields |-> cr0.fields, result |-> cr0.result,
                              canProcessBlockValues |-> CanProcessBlockValues(cr0)]
                c == BuildChild(slotDef, childReqs, env)
            IN /\ stage' = <<StageRec("child", <<>>, <<>>)>>
               /\ slotDef' = c.sd
               /\ childOutputs' = c.outputs
               /\ loc' = [loc EXCEPT !.childReqs = Some(childReqs)]
               /\ pc' = "paths"
               /\ err' = err
    /\ UNCHANGED <<groupNode, reqs, env, needsMerge, ret>>

(***************************************************************************)
(* collectFieldPaths and makePathExprsAvailableInSlots.                    *)
(***************************************************************************)
GroupFieldRefSeq(gn) ==
    FieldRefSeq(gn.groupByExpression) \o
    Flatten([i \in 1..Len(gn.accumulators) |-> FieldRefSeq(gn.accumulators[i].acc.argument)])

\* Mutant: a path is collected every time it is referenced.
CollectFieldPaths_NoDedup(gn) ==
    SelectSeq(GroupFieldRefSeq(gn),
              LAMBDA e : PathLength(e) > 2 /\ ~IsVariableReference(e))

\* accumulateFieldPaths over the references in walk order: the variable itself
\* and the paths on user-defined variables are skipped, a path whose string (the
\* path without the variable) is in the map already is skipped, and so is a
\* top-level field.
RECURSIVE AccumulateFieldPaths(_, _, _)
AccumulateFieldPaths(refs, i, groupFieldMap) ==
    IF i > Len(refs) THEN groupFieldMap
    ELSE LET fieldExpr == refs[i]
         IN IF PathLength(fieldExpr) = 1 \/ IsVariableReference(fieldExpr)
            THEN AccumulateFieldPaths(refs, i + 1, groupFieldMap)
            ELSE IF \E k \in 1..Len(groupFieldMap) :
                        PathOf(groupFieldMap[k]) = PathOf(fieldExpr)
            THEN AccumulateFieldPaths(refs, i + 1, groupFieldMap)
            ELSE IF PathLength(fieldExpr) # 2
            THEN AccumulateFieldPaths(refs, i + 1, Append(groupFieldMap, fieldExpr))
            ELSE AccumulateFieldPaths(refs, i + 1, groupFieldMap)

\* The collected expressions, one per path string, in the order of insertion.
CollectFieldPaths(gn) == AccumulateFieldPaths(GroupFieldRefSeq(gn), 1, <<>>)

\* Mutant: the variable the path starts from is not looked at.
DoesExpressionReferenceBlock_AnyVariable(outputs, e) == e.s \in outputs.blockFields

DoesExpressionReferenceBlock(outputs, e) ==
    IF e.n # RootId THEN FALSE ELSE e.s \in outputs.blockFields

PartitionFieldPathExprsByBlock(outputs, groupFieldMapIn) ==
    [exprsOnBlockSlots |->
        SelectSeq(groupFieldMapIn, LAMBDA e : DoesExpressionReferenceBlock(outputs, e)),
     exprsOnScalarSlots |->
        SelectSeq(groupFieldMapIn, LAMBDA e : ~DoesExpressionReferenceBlock(outputs, e))]

ProjectFieldPathsToPathExprSlots(st, sd, outputs, groupFieldMap) ==
    LET names == {PathOf(groupFieldMap[i]) : i \in 1..Len(groupFieldMap)}
        r == MakeProject(st, sd, [i \in 1..Len(groupFieldMap) |->
                                     Proj(GenExpr(groupFieldMap[i], outputs), None)])
        \* A name set twice keeps the slot set last.
        pos(p) == CHOOSE i \in 1..Len(groupFieldMap) :
                     /\ PathOf(groupFieldMap[i]) = p
                     /\ \A k \in 1..Len(groupFieldMap) :
                           PathOf(groupFieldMap[k]) = p => k <= i
    IN [stage |-> r.stage, sd |-> r.sd,
        outputs |-> [outputs EXCEPT !.pathExprs =
                        [p \in DOMAIN outputs.pathExprs \cup names |->
                            IF p \in names THEN r.outs[pos(p)]
                            ELSE outputs.pathExprs[p]]]]

MakePathExprsAvailableInSlots(st, sd, outputs, groupFieldMapIn) ==
    IF groupFieldMapIn = <<>> THEN [stage |-> st, sd |-> sd, outputs |-> outputs]
    ELSE IF HasBlockOutput(outputs)
    THEN LET parts == PartitionFieldPathExprsByBlock(outputs, groupFieldMapIn)
             r1 == ProjectFieldPathsToPathExprSlots(st, sd, outputs,
                                                    parts.exprsOnScalarSlots)
         IN IF parts.exprsOnBlockSlots = <<>> THEN r1
            ELSE LET r2 == BuildBlockToRow(r1.stage, r1.sd, r1.outputs, <<>>)
                 IN ProjectFieldPathsToPathExprSlots(r2.stage, r2.sd, r2.outputs,
                                                     parts.exprsOnBlockSlots)
    ELSE ProjectFieldPathsToPathExprSlots(st, sd, outputs, groupFieldMapIn)

MaterializePaths ==
    /\ pc = "paths"
    /\ LET r == MakePathExprsAvailableInSlots(stage, slotDef, childOutputs,
                                              CollectFieldPaths(groupNode))
       IN /\ stage' = r.stage
          /\ slotDef' = r.sd
          /\ childOutputs' = r.outputs
    /\ pc' = "keys"
    /\ UNCHANGED <<groupNode, reqs, env, err, needsMerge, loc, ret>>

(***************************************************************************)
(* generateGroupByKeyExprs and the vectorization of the keys.              *)
(***************************************************************************)
IsObjectKey(idExpr) == idExpr.h = "mqlObject"

\* Mutant: the single key is compiled without the fill-empty-with-null wrapper.
GenerateGroupByKeyExprs_NoFill(idExpr, outputs) ==
    IF IsObjectKey(idExpr)
    THEN LET exprs == [i \in 1..Len(idExpr.args) |-> GenExpr(idExpr.args[i].args[1], outputs)]
         IN IF Len(exprs) = 1 THEN <<MakeFillEmptyNull(exprs[1])>> ELSE exprs
    ELSE <<GenExpr(idExpr, outputs)>>

\* Mutant: every part of an object key is null-collapsed.
GenerateGroupByKeyExprs_FillAll(idExpr, outputs) ==
    IF IsObjectKey(idExpr)
    THEN [i \in 1..Len(idExpr.args) |->
             MakeFillEmptyNull(GenExpr(idExpr.args[i].args[1], outputs))]
    ELSE <<MakeFillEmptyNull(GenExpr(idExpr, outputs))>>

GenerateGroupByKeyExprs(idExpr, outputs) ==
    IF IsObjectKey(idExpr)
    THEN LET exprs == [i \in 1..Len(idExpr.args) |-> GenExpr(idExpr.args[i].args[1], outputs)]
         IN IF Len(exprs) = 1 THEN <<MakeFillEmptyNull(exprs[1])>> ELSE exprs
    ELSE <<MakeFillEmptyNull(GenExpr(idExpr, outputs))>>

HasVariableGroupInit(accs) == \E i \in 1..Len(accs) : ~accs[i].acc.initConst

\* Mutant: a key that fails to vectorize is recompiled without closing the block
\* pipeline.
VectorizeKeys_NoClose(st, sd, outputs, idExpr, exprs, vecConst) ==
    IF ~HasBlockOutput(outputs)
    THEN [stage |-> st, sd |-> sd, outputs |-> outputs, exprs |-> exprs, vectorized |-> FALSE]
    ELSE LET vs == [i \in 1..Len(exprs) |-> BuildVectorizedExpr(exprs[i], vecConst)]
         IN IF \E i \in 1..Len(vs) : IsNullExpr(vs[i])
            THEN [stage |-> st, sd |-> sd, outputs |-> outputs,
                  exprs |-> GenerateGroupByKeyExprs(idExpr, outputs), vectorized |-> FALSE]
            ELSE [stage |-> st, sd |-> sd, outputs |-> outputs, exprs |-> vs,
                  vectorized |-> TRUE]

\* Lines 1357-1376: the keys as they leave the vectorization attempt.
VectorizeKeys(st, sd, outputs, idExpr, exprs, vecConst) ==
    IF ~HasBlockOutput(outputs)
    THEN [stage |-> st, sd |-> sd, outputs |-> outputs, exprs |-> exprs, vectorized |-> FALSE]
    ELSE LET vs == [i \in 1..Len(exprs) |-> BuildVectorizedExpr(exprs[i], vecConst)]
         IN IF \E i \in 1..Len(vs) : IsNullExpr(vs[i])
            THEN LET r == BuildBlockToRow(st, sd, outputs, <<>>)
                 IN [stage |-> r.stage, sd |-> r.sd, outputs |-> r.outputs,
                     exprs |-> GenerateGroupByKeyExprs(idExpr, r.outputs),
                     vectorized |-> FALSE]
            ELSE [stage |-> st, sd |-> sd, outputs |-> outputs, exprs |-> vs,
                  vectorized |-> TRUE]

CompileKeys ==
    /\ pc = "keys"
    /\ LET idExpr == groupNode.groupByExpression
           hasInit == HasVariableGroupInit(groupNode.accumulators)
           r == VectorizeKeys(stage, slotDef, childOutputs, idExpr,
                              GenerateGroupByKeyExprs(idExpr, childOutputs), env.vecConst)
           exprs == IF r.vectorized THEN r.exprs
                    ELSE [i \in 1..Len(r.exprs) |-> Optimize(r.exprs[i])]
       IN /\ stage' = r.stage
          /\ childOutputs' = r.outputs
          /\ slotDef' = IF hasInit THEN Append(r.sd, T("unbound", "", 0, <<>>)) ELSE r.sd
          /\ loc' = [loc EXCEPT !.groupByExprs = exprs,
                                !.idIsSingleKey = ~IsObjectKey(idExpr),
                                !.vectorizedGroupByExprs = r.vectorized,
                                !.hasVariableGroupInit = hasInit,
                                !.slotIdForInitRoot =
                                    IF hasInit THEN Some(Len(r.sd) + 1) ELSE None]
    /\ pc' = "decide"
    /\ UNCHANGED <<groupNode, reqs, env, err, needsMerge, ret>>

(***************************************************************************)
(* The decision to try BlockHashAggStage and the attempt (lines 1401-1473).*)
(***************************************************************************)
CanBuildBlockExprsAndBlockAggs(accs) ==
    \A i \in 1..Len(accs) :
        accs[i].acc.hasBuildAddBlockExprs /\ accs[i].acc.hasBuildAddBlockAggs

\* Mutant: the collator is not looked at.
TryToUseBlockHashAgg_NoCollator(e, outputs, hasInit, accs) ==
    /\ e.featureFlagsAllowBlockHashAgg
    /\ HasBlockOutput(outputs)
    /\ ~hasInit
    /\ CanBuildBlockExprsAndBlockAggs(accs)

TryToUseBlockHashAgg(e, outputs, hasInit, accs) ==
    /\ e.featureFlagsAllowBlockHashAgg
    /\ HasBlockOutput(outputs)
    /\ ~hasInit
    /\ ~e.collator
    /\ CanBuildBlockExprsAndBlockAggs(accs)

DecideBlockHashAgg ==
    /\ pc = "decide"
    /\ loc' = [loc EXCEPT !.tryToUseBlockHashAgg =
                  TryToUseBlockHashAgg(env, childOutputs, loc.hasVariableGroupInit,
                                       groupNode.accumulators)]
    /\ pc' = "attempt"
    /\ UNCHANGED <<groupNode, reqs, env, err, needsMerge, stage, slotDef, childOutputs, ret>>

\* The slot of the statement's sort specification in the runtime environment.
SortSpecExpr(acc) == T("sortSpec", acc.op, 0, <<>>)

BadValue == 2

MakeFail(code, msg) == T("fail", msg, code, <<>>)

ParallelArraysError == MakeFail(BadValue, "cannot sort with keys that are parallel arrays")

\* buildSortKeys: for a kTraverseFields plan one key expression per part of the
\* pattern and, when the pattern has two parts or more, the check that at most one
\* of their fields holds an array; for a kCallGenCheapSortKey plan the key
\* generated from the result object.
BuildSortKeys(plan, outputs, sortSpecExpr) ==
    LET parts == plan.sortPattern.parts
        fieldExpr(i) == GenExpr(MqlField(parts[i], <<>>), outputs)
    IN IF plan.type = "kTraverseFields"
       THEN [keyExprs |-> [i \in 1..Len(parts) |->
                             T("sortKeyPart", parts[i], i, <<fieldExpr(i)>>)],
             parallelArraysCheckExpr |->
                 IF Len(parts) >= 2
                 THEN T("atMostOneArray", "", 0, [i \in 1..Len(parts) |-> fieldExpr(i)])
                 ELSE NullExpr,
             fullKeyExpr |-> NullExpr]
       ELSE [keyExprs |-> <<>>, parallelArraysCheckExpr |-> NullExpr,
             fullKeyExpr |-> T("generateCheapSortKey", "", 0,
                               <<Slot(outputs.resultObj[1]), sortSpecExpr>>)]

GetTopBottomNValueExpr(acc, outputs) == MakeFillEmptyNull(GenExpr(acc.argument, outputs))

\* Mutant: the check for parallel arrays is not injected into the key expression.
GetTopBottomNSortByExpr_NoGuard(acc, outputs, sortSpecExpr) ==
    LET plan == acc.sortPlan[1]
        sortKeys == BuildSortKeys(plan, outputs, sortSpecExpr)
    IN IF plan.type = "kTraverseFields"
       THEN IF Len(plan.sortPattern.parts) = 1 THEN sortKeys.keyExprs[1]
            ELSE T("newArray", "", 0, sortKeys.keyExprs)
       ELSE T("sortKeyComponentVectorToArray", "", 0, <<sortKeys.fullKeyExpr>>)

GetTopBottomNSortByExpr(acc, outputs, sortSpecExpr) ==
    LET plan == acc.sortPlan[1]
        sortKeys == BuildSortKeys(plan, outputs, sortSpecExpr)
        fullKeyExpr == IF Len(plan.sortPattern.parts) = 1 THEN sortKeys.keyExprs[1]
                       ELSE T("newArray", "", 0, sortKeys.keyExprs)
    IN IF plan.type = "kTraverseFields"
       THEN IF ~IsNullExpr(sortKeys.parallelArraysCheckExpr)
            THEN T("if", "", 0, <<sortKeys.parallelArraysCheckExpr, fullKeyExpr,
                                  ParallelArraysError>>)
            ELSE fullKeyExpr
       ELSE T("sortKeyComponentVectorToArray", "", 0, <<sortKeys.fullKeyExpr>>)

\* The key expressions of the columnar form, and whether they are several keys.
GetBlockTopBottomNSortByExpr(acc, outputs, sortSpecExpr) ==
    LET plan == acc.sortPlan[1]
        sortKeys == BuildSortKeys(plan, outputs, sortSpecExpr)
        n == Len(plan.sortPattern.parts)
        keyExprs == IF n = 1 THEN <<sortKeys.keyExprs[1]>>
                    ELSE IF n > 1 THEN sortKeys.keyExprs
                    ELSE <<T("newArray", "", 0, <<>>)>>
    IN IF plan.type = "kTraverseFields"
       THEN [exprs |-> IF ~IsNullExpr(sortKeys.parallelArraysCheckExpr)
                       THEN [keyExprs EXCEPT ![1] =
                                T("if", "", 0, <<sortKeys.parallelArraysCheckExpr, @,
                                                 ParallelArraysError>>)]
                       ELSE keyExprs,
             useMK |-> n > 1]
       ELSE [exprs |-> <<T("sortKeyComponentVectorToArray", "", 0,
                           <<sortKeys.fullKeyExpr>>)>>,
             useMK |-> FALSE]

\* The argument expression(s) generateAccumExprs hands to the accumulator.
AccArgExpr(acc, outputs) ==
    IF acc.sortPlan # None
    THEN T("topBottomN", "", 0,
           <<GetTopBottomNValueExpr(acc, outputs),
             GetTopBottomNSortByExpr(acc, outputs, SortSpecExpr(acc)),
             SortSpecExpr(acc)>>)
    ELSE GenExpr(acc.argument, outputs)

\* The argument expression(s) generateAccumBlockExprs hands to the accumulator;
\* several sort keys are the components of one key.
AccBlockArgExpr(acc, outputs) ==
    IF acc.sortPlan # None
    THEN LET sortBy == GetBlockTopBottomNSortByExpr(acc, outputs, SortSpecExpr(acc))
         IN T("topBottomN", "", 0,
              <<GetTopBottomNValueExpr(acc, outputs),
                IF sortBy.useMK THEN T("newArray", "", 0, sortBy.exprs)
                ELSE sortBy.exprs[1],
                SortSpecExpr(acc)>>)
    ELSE GenExpr(acc.argument, outputs)

\* generateAllAccumBlockExprs: stops at the first accumulator whose
\* buildAddBlockExprs returns no result; the data slots of the earlier ones stay
\* allocated.
RECURSIVE GenerateAllAccumBlockExprs(_, _, _, _, _)
GenerateAllAccumBlockExprs(accs, i, sd, out, outputs) ==
    IF i > Len(accs) THEN [sd |-> sd, res |-> Some(out)]
    ELSE IF ~accs[i].acc.blockExprsOk THEN [sd |-> sd, res |-> None]
    ELSE LET k == accs[i].acc.numUpdates
             arg == AccBlockArgExpr(accs[i].acc, outputs)
             slots == [j \in 1..k |-> Len(sd) + j]
         IN GenerateAllAccumBlockExprs(
                accs, i + 1,
                sd \o [j \in 1..k |-> T("unbound", "", 0, <<>>)],
                Append(out, [inputs |-> [j \in 1..k |-> Slot(slots[j])],
                             exprs |-> [j \in 1..k |-> T("blockArg", "", j, <<arg>>)],
                             slots |-> slots]),
                outputs)

InitExpr(acc, j, initRootSlot) ==
    T("init", acc.op, j,
      IF acc.isAccumulatorN
      \* The initializer of the statement compiled over 'initRootSlot': a constant
      \* initializer does not read the slot.
      THEN <<IF acc.initConst \/ initRootSlot = None THEN Const(V1)
             ELSE T("initializer", "", 0, <<Slot(initRootSlot[1])>>)>>
      ELSE <<>>)

\* generateAccumAggs for one statement: its SbAggExprs, or None when block aggs were
\* asked for and buildAddBlockAggs returned no result.
GenerateAccumAggs(acc, inputs, initRootSlot, genBlockAggs, bitmapInternalSlot) ==
    IF genBlockAggs /\ ~acc.blockAggsOk THEN None
    ELSE Some([j \in 1..acc.numUpdates |->
                 [init |-> InitExpr(acc, j, initRootSlot),
                  blockAgg |-> IF genBlockAggs /\ ~acc.nullBlockAgg
                               THEN T("blockAgg", acc.op, j,
                                      <<inputs[j], Slot(bitmapInternalSlot[1])>>)
                               ELSE NullExpr,
                  rowAgg |-> T("agg", acc.op, j, <<inputs[j]>>)]])

\* Mutant: the lengths of the init and the update list are not compared.
AccumAggsError_NoCheck(acc, genBlockAggs) == 0

\* The invariant violation generateAccumAggs raises for one statement, or 0:
\* tassert 7567301 when buildInitialize and the update builder return lists of
\* different lengths (not reached when buildAddBlockAggs returned no result).
AccumAggsError(acc, genBlockAggs) ==
    IF genBlockAggs /\ ~acc.blockAggsOk THEN 0
    ELSE IF acc.numInits # acc.numUpdates THEN 7567301
    ELSE 0

\* generateAllAccumAggs stops at the first statement that raises or returns no
\* result: the code of the violation it is left by, or 0.
AllAccumAggsError(accs, genBlockAggs) ==
    LET stops == {i \in 1..Len(accs) :
                    \/ genBlockAggs /\ ~accs[i].acc.blockAggsOk
                    \/ AccumAggsError(accs[i].acc, genBlockAggs) # 0}
    IN IF stops = {} THEN 0
       ELSE AccumAggsError(accs[CHOOSE i \in stops : \A k \in stops : i <= k].acc,
                           genBlockAggs)

\* Lines 1466-1472: tassert 8751305 when a blockAgg of the block aggregates is null.
HasNullBlockAggs(sbAggExprs) ==
    \E i \in 1..Len(sbAggExprs) :
        \E j \in 1..Len(sbAggExprs[i]) : IsNullExpr(sbAggExprs[i][j].blockAgg)

GenerateAllAccumAggs(accs, accExprsVec, initRootSlot, genBlockAggs, bitmapInternalSlot) ==
    LET per == [i \in 1..Len(accs) |->
                   GenerateAccumAggs(accs[i].acc, accExprsVec[i], initRootSlot,
                                     genBlockAggs, bitmapInternalSlot)]
    IN IF \E i \in 1..Len(accs) : per[i] = None THEN None
       ELSE Some([i \in 1..Len(accs) |-> per[i][1]])

AttemptBlockAggs ==
    /\ pc = "attempt"
    /\ IF ~loc.tryToUseBlockHashAgg
       THEN /\ UNCHANGED <<slotDef, loc, err>>
            /\ pc' = "close"
       ELSE LET accs == groupNode.accumulators
                Built(be, e, aggs) ==
                    LET v == be.res[1]
                        l == [loc EXCEPT
                                !.blockAccExprs = [i \in 1..Len(v) |-> v[i].exprs],
                                !.accumulatorDataSlots = [i \in 1..Len(v) |-> v[i].slots],
                                !.bitmapInternalSlot = Some(Len(be.sd) + 1)]
                    IN /\ slotDef' = Append(be.sd, T("unbound", "", 0, <<>>))
                       /\ IF e # 0
                          THEN /\ Abort(e)
                               /\ loc' = l
                          ELSE IF aggs # None /\ HasNullBlockAggs(aggs[1])
                          THEN /\ Abort(8751305)
                               /\ loc' = [l EXCEPT !.sbAggExprs = aggs,
                                                   !.useBlockHashAgg = TRUE]
                          ELSE /\ loc' = [l EXCEPT !.sbAggExprs = aggs,
                                                   !.useBlockHashAgg = (aggs # None)]
                               /\ err' = err
                               /\ pc' = "close"
                Attempted(be) ==
                    IF be.res = None
                    THEN /\ slotDef' = be.sd
                         /\ loc' = loc
                         /\ err' = err
                         /\ pc' = "close"
                    ELSE Built(be, AllAccumAggsError(accs, TRUE),
                               GenerateAllAccumAggs(
                                   accs, [i \in 1..Len(be.res[1]) |-> be.res[1][i].inputs],
                                   loc.slotIdForInitRoot, TRUE, Some(Len(be.sd) + 1)))
            IN Attempted(GenerateAllAccumBlockExprs(accs, 1, slotDef, <<>>, childOutputs))
    /\ UNCHANGED <<groupNode, reqs, env, needsMerge, stage, childOutputs, ret>>

(***************************************************************************)
(* Lines 1475-1501: closing the block pipeline when BlockHashAggStage is   *)
(* not going to be used.                                                   *)
(***************************************************************************)
\* Mutant: the block argument expressions, data slots and bitmap slot are kept.
CloseBlockPipeline_NoClear(st, sd, outputs, l) ==
    IF l.useBlockHashAgg \/ ~HasBlockOutput(outputs)
    THEN [stage |-> st, sd |-> sd, outputs |-> outputs, loc |-> l]
    ELSE LET p == MakeProject(st, sd, [i \in 1..Len(l.groupByExprs) |->
                                          Proj(l.groupByExprs[i], None)])
             r == BuildBlockToRow(p.stage, p.sd, outputs, p.outs)
         IN [stage |-> r.stage, sd |-> r.sd, outputs |-> r.outputs,
             loc |-> [l EXCEPT
                        !.groupByExprs = [i \in 1..Len(r.outs) |-> Slot(r.outs[i])],
                        !.individualSlots = r.outs]]

\* Mutant: the block pipeline is converted to rows before the keys are projected.
CloseBlockPipeline_ConvertFirst(st, sd, outputs, l) ==
    IF l.useBlockHashAgg
    THEN [stage |-> st, sd |-> sd, outputs |-> outputs, loc |-> l]
    ELSE LET cleared == [l EXCEPT !.blockAccExprs = <<>>,
                                  !.accumulatorDataSlots = <<>>,
                                  !.bitmapInternalSlot = None]
         IN IF ~HasBlockOutput(outputs)
            THEN [stage |-> st, sd |-> sd, outputs |-> outputs, loc |-> cleared]
            ELSE LET r == BuildBlockToRow(st, sd, outputs, <<>>)
                     p == MakeProject(r.stage, r.sd, [i \in 1..Len(l.groupByExprs) |->
                                                         Proj(l.groupByExprs[i], None)])
                 IN [stage |-> p.stage, sd |-> p.sd, outputs |-> r.outputs,
                     loc |-> [cleared EXCEPT
                                !.groupByExprs = [i \in 1..Len(p.outs) |-> Slot(p.outs[i])],
                                !.individualSlots = p.outs]]

\* Mutant: the vectorized attempt is discarded without converting to rows.
CloseBlockPipeline_NoConversion(st, sd, outputs, l) ==
    IF l.useBlockHashAgg
    THEN [stage |-> st, sd |-> sd, outputs |-> outputs, loc |-> l]
    ELSE [stage |-> st, sd |-> sd, outputs |-> outputs,
          loc |-> [l EXCEPT !.blockAccExprs = <<>>,
                            !.accumulatorDataSlots = <<>>,
                            !.bitmapInternalSlot = None]]

CloseBlockPipeline(st, sd, outputs, l) ==
    IF l.useBlockHashAgg
    THEN [stage |-> st, sd |-> sd, outputs |-> outputs, loc |-> l]
    ELSE LET cleared == [l EXCEPT !.blockAccExprs = <<>>,
                                  !.accumulatorDataSlots = <<>>,
                                  !.bitmapInternalSlot = None]
         IN IF ~HasBlockOutput(outputs)
            THEN [stage |-> st, sd |-> sd, outputs |-> outputs, loc |-> cleared]
            ELSE LET p == MakeProject(st, sd, [i \in 1..Len(l.groupByExprs) |->
                                                  Proj(l.groupByExprs[i], None)])
                     r == BuildBlockToRow(p.stage, p.sd, outputs, p.outs)
                 IN [stage |-> r.stage, sd |-> r.sd, outputs |-> r.outputs,
                     loc |-> [cleared EXCEPT
                                !.groupByExprs = [i \in 1..Len(r.outs) |-> Slot(r.outs[i])],
                                !.individualSlots = r.outs]]

ClosePipeline ==
    /\ pc = "close"
    /\ LET r == CloseBlockPipeline(stage, slotDef, childOutputs, loc)
       IN /\ stage' = r.stage
          /\ slotDef' = r.sd
          /\ childOutputs' = r.outputs
          /\ loc' = r.loc
    /\ pc' = "rowaggs"
    /\ UNCHANGED <<groupNode, reqs, env, err, needsMerge, ret>>

(***************************************************************************)
(* Lines 1503-1522: the scalar argument and aggregate expressions.         *)
(***************************************************************************)
GenerateAllAccumExprs(accs, outputs) ==
    [i \in 1..Len(accs) |->
        [j \in 1..accs[i].acc.numUpdates |-> AccArgExpr(accs[i].acc, outputs)]]

RowAggs(l, accs, outputs) ==
    IF l.sbAggExprs # None THEN l.sbAggExprs
    ELSE GenerateAllAccumAggs(accs, GenerateAllAccumExprs(accs, outputs),
                              l.slotIdForInitRoot, FALSE, None)

GenerateRowAggs ==
    /\ pc = "rowaggs"
    /\ LET e == IF loc.sbAggExprs # None THEN 0
                ELSE AllAccumAggsError(groupNode.accumulators, FALSE)
       IN IF e # 0
          THEN /\ Abort(e)
               /\ loc' = loc
          ELSE /\ loc' = [loc EXCEPT !.sbAggExprs =
                             RowAggs(loc, groupNode.accumulators, childOutputs)]
               /\ pc' = "initroot"
               /\ err' = err
    /\ UNCHANGED <<groupNode, reqs, env, needsMerge, stage, slotDef, childOutputs, ret>>

(***************************************************************************)
(* generateInitRootSlot (lines 1094-1180, called at 1528-1543).            *)
(***************************************************************************)
NewObj(names, exprs) == T("newObj", "", 0, [i \in 1..Len(exprs) |-> Fld(names[i], exprs[i])])

KeyFieldNames(idExpr) == [i \in 1..Len(idExpr.args) |-> idExpr.args[i].s]

IsObjectConst(e) == IsConstantExpr(e) /\ e.args[1].h = "obj"

\* Mutant: the key slot is used as the root whether or not the key is known to be
\* an object.
GenerateInitRootSlot_NoGuard(st, sd, individualSlots, groupByExprs, vectorized, idExpr, slotIdForInitRoot) ==
    LET exprs == IF IsObjectKey(idExpr)
                 THEN <<NewObj(KeyFieldNames(idExpr), groupByExprs)>>
                 ELSE groupByExprs
        p1 == MakeProject(st, sd, <<Proj(exprs[1], slotIdForInitRoot)>>)
    IN [stage |-> p1.stage, sd |-> p1.sd, exprs |-> <<Slot(p1.outs[1])>>,
        individualSlots |-> Append(individualSlots, p1.outs[1]), slot |-> p1.outs[1]]

GenerateInitRootSlot(st, sd, individualSlots, groupByExprs, vectorized, idExpr, slotIdForInitRoot) ==
    LET exprs == IF IsObjectKey(idExpr)
                 THEN <<NewObj(KeyFieldNames(idExpr), groupByExprs)>>
                 ELSE groupByExprs
        idIsKnownToBeObj == IsObjectKey(idExpr) \/ (IsObjectConst(exprs[1]) /\ ~vectorized)
        p1 == MakeProject(st, sd, <<Proj(exprs[1],
                                         IF idIsKnownToBeObj THEN slotIdForInitRoot ELSE None)>>)
        keySlot == p1.outs[1]
        idOrEmptyObj == T("if", "", 0, <<T("isObject", "", 0, <<Slot(keySlot)>>),
                                         Slot(keySlot), Const(EmptyObj)>>)
        p2 == MakeProject(p1.stage, p1.sd, <<Proj(idOrEmptyObj, slotIdForInitRoot)>>)
    IN IF idIsKnownToBeObj
       THEN [stage |-> p1.stage, sd |-> p1.sd, exprs |-> <<Slot(keySlot)>>,
             individualSlots |-> Append(individualSlots, keySlot), slot |-> keySlot]
       ELSE [stage |-> p2.stage, sd |-> p2.sd, exprs |-> <<Slot(keySlot)>>,
             individualSlots |-> individualSlots \o <<keySlot, p2.outs[1]>>,
             slot |-> p2.outs[1]]

SetUpInitRoot ==
    /\ pc = "initroot"
    /\ IF ~loc.hasVariableGroupInit
       THEN UNCHANGED <<stage, slotDef, loc>>
       ELSE LET r == GenerateInitRootSlot(stage, slotDef, loc.individualSlots,
                                          loc.groupByExprs, loc.vectorizedGroupByExprs,
                                          groupNode.groupByExpression, loc.slotIdForInitRoot)
            IN /\ stage' = r.stage
               /\ slotDef' = r.sd
               /\ loc' = [loc EXCEPT !.groupByExprs = r.exprs,
                                     !.individualSlots = r.individualSlots,
                                     !.initRootSlot = Some(r.slot),
                                     !.idIsSingleKey = TRUE]
    /\ pc' = "merge"
    /\ UNCHANGED <<groupNode, reqs, env, err, needsMerge, childOutputs, ret>>

(***************************************************************************)
(* generateAllMergingExprs and the constant-key shortcut (1545-1557).      *)
(***************************************************************************)
\* Mutant: the numbers of spill slots and of merge expressions are not compared.
MergingError_NoSizeCheck(acc, numInputSlots) ==
    IF numInputSlots <= 0 THEN 7039555 ELSE 0

\* The invariant violation generateMergingExpressions raises, or 0: tassert
\* 7039555 unless 'numInputSlots' is positive, tassert 7039550 unless
\* buildCombineAggs returns one expression per spill slot.
MergingError(acc, numInputSlots) ==
    IF numInputSlots <= 0 THEN 7039555
    ELSE IF acc.numCombine # numInputSlots THEN 7039550
    ELSE 0

AllMergingError(accs) ==
    LET bad == {i \in 1..Len(accs) : MergingError(accs[i].acc, accs[i].acc.numAggs) # 0}
    IN IF bad = {} THEN 0
       ELSE LET i == CHOOSE i \in bad : \A k \in bad : i <= k
            IN MergingError(accs[i].acc, accs[i].acc.numAggs)

\* Mutant: only the first merge expression is paired with a spill slot.
GenerateMergingExpressions_FirstOnly(acc, numInputSlots, firstSlot) ==
    <<[expr |-> T("merge", acc.op, 1, <<Slot(firstSlot)>>), slot |-> firstSlot]>>

\* generateMergingExpressions: 'numInputSlots' fresh spill slots, zipped with the
\* expressions buildCombineAggs returns for them.
GenerateMergingExpressions(acc, numInputSlots, firstSlot) ==
    LET mergingExprs == [j \in 1..acc.numCombine |->
                            T("merge", acc.op, j, <<Slot(firstSlot + j - 1)>>)]
        n == IF Len(mergingExprs) < numInputSlots THEN Len(mergingExprs)
             ELSE numInputSlots
    IN [j \in 1..n |-> [expr |-> mergingExprs[j], slot |-> firstSlot + j - 1]]

RECURSIVE GenerateAllMergingExprs(_, _, _, _)
GenerateAllMergingExprs(accs, i, sd, out) ==
    IF i > Len(accs) THEN [sd |-> sd, res |-> out]
    ELSE LET k == accs[i].acc.numAggs
         IN GenerateAllMergingExprs(
                accs, i + 1, sd \o [j \in 1..k |-> T("spill", "", 0, <<>>)],
                Append(out, GenerateMergingExpressions(accs[i].acc, k, Len(sd) + 1)))

\* Mutant: a single key is dropped whether or not it is a constant.
UseConstantKey_AnySingleKey(l) ==
    /\ l.idIsSingleKey
    /\ ~l.vectorizedGroupByExprs
    /\ ~l.hasVariableGroupInit

UseConstantKey(l) ==
    /\ l.idIsSingleKey
    /\ ~l.vectorizedGroupByExprs
    /\ IsConstantExpr(l.groupByExprs[1])
    /\ ~l.hasVariableGroupInit

GenerateMerging ==
    /\ pc = "merge"
    /\ LET m == GenerateAllMergingExprs(groupNode.accumulators, 1, slotDef, <<>>)
           e == AllMergingError(groupNode.accumulators)
       IN IF e # 0
          THEN /\ Abort(e)
               /\ UNCHANGED <<slotDef, loc>>
          ELSE /\ slotDef' = m.sd
               /\ loc' = IF UseConstantKey(loc)
                         THEN [loc EXCEPT !.mergingExprs = m.res,
                                          !.idConstantValue = Some(loc.groupByExprs[1]),
                                          !.groupByExprs = <<>>]
                         ELSE [loc EXCEPT !.mergingExprs = m.res]
               /\ pc' = "agg"
               /\ err' = err
    /\ UNCHANGED <<groupNode, reqs, env, needsMerge, stage, childOutputs, ret>>

(***************************************************************************)
(* buildGroupAggregation (lines 965-1064, called at 1559-1591).            *)
(***************************************************************************)
BuildGroupAggregation(st, sd, outputs, l, collator) ==
    LET nKeys == Len(l.groupByExprs)
        blockArgs == Flatten(l.blockAccExprs)
        p == MakeProject(st, sd,
                         [i \in 1..nKeys + Len(blockArgs) |->
                             Proj(IF i <= nKeys THEN l.groupByExprs[i]
                                  ELSE blockArgs[i - nKeys], None)])
        groupBySlots == SubSeq(p.outs, 1, nKeys)
        argSlots == SubSeq(p.outs, nKeys + 1, Len(p.outs))
        dataSlots == Flatten(l.accumulatorDataSlots)
        aggs == Flatten(l.sbAggExprs[1])
        merges == Flatten(l.mergingExprs)
        nAggs == Len(aggs)
        \* BlockHashAggStage binds the i-th data slot to the i-th argument slot.
        sd1 == IF l.useBlockHashAgg
               THEN [n \in 1..Len(p.sd) |->
                       IF \E i \in 1..Len(dataSlots) : dataSlots[i] = n
                       THEN LET i == CHOOSE i \in 1..Len(dataSlots) : dataSlots[i] = n
                            IN IF i <= Len(argSlots)
                               THEN T("accData", "", 0, <<Slot(argSlots[i])>>)
                               ELSE p.sd[n]
                       ELSE p.sd[n]]
               ELSE p.sd
        keyOuts == IF l.useBlockHashAgg THEN [i \in 1..nKeys |-> Len(sd1) + i]
                   ELSE groupBySlots
        sd2 == IF l.useBlockHashAgg
               THEN sd1 \o [i \in 1..nKeys |-> T("keyOut", "", 0, <<Slot(groupBySlots[i])>>)]
               ELSE sd1
        aggOuts == [i \in 1..nAggs |-> Len(sd2) + i]
        sd3 == sd2 \o [i \in 1..nAggs |->
                          T("aggOut", "", 0,
                            <<IF l.useBlockHashAgg THEN aggs[i].blockAgg ELSE aggs[i].rowAgg,
                              aggs[i].init>>)]
        rec == [StageRec(IF l.useBlockHashAgg THEN "block_hash_agg" ELSE "hash_agg",
                         groupBySlots, keyOuts \o aggOuts)
                  EXCEPT !.aggs = aggs, !.merges = merges,
                         !.collator = collator /\ ~l.useBlockHashAgg,
                         !.args = IF l.useBlockHashAgg THEN argSlots ELSE <<>>,
                         !.data = IF l.useBlockHashAgg THEN dataSlots ELSE <<>>,
                         !.bitmap = IF l.useBlockHashAgg THEN l.bitmapInternalSlot ELSE None,
                         !.sel = IF l.useBlockHashAgg THEN outputs.bitmap ELSE None]
    IN [stage |-> Append(p.stage, rec), sd |-> sd3,
        groupByOutSlots |-> keyOuts, aggOutSlots |-> aggOuts]

\* Mutant: the output slots of the columnar stage are not counted.
AggregationError_NoCheck(useBlockHashAgg, groupByOutSlots, aggOutSlots) == 0

\* tassert 8448606 (lines 1583-1586), evaluated after the stage was assembled.
AggregationError(useBlockHashAgg, groupByOutSlots, aggOutSlots) ==
    IF useBlockHashAgg /\ groupByOutSlots = <<>> /\ aggOutSlots = <<>> THEN 8448606 ELSE 0

AssembleAggregation ==
    /\ pc = "agg"
    /\ LET r == BuildGroupAggregation(stage, slotDef, childOutputs, loc, env.collator)
       IN /\ stage' = r.stage
          /\ slotDef' = r.sd
          /\ IF AggregationError(loc.useBlockHashAgg, r.groupByOutSlots, r.aggOutSlots) # 0
             THEN /\ Abort(AggregationError(loc.useBlockHashAgg, r.groupByOutSlots,
                                            r.aggOutSlots))
                  /\ loc' = loc
             ELSE /\ loc' = [loc EXCEPT
                               !.groupByOutSlots = r.groupByOutSlots,
                               !.aggOutSlots = r.aggOutSlots,
                               !.individualSlots = r.groupByOutSlots \o r.aggOutSlots,
                               !.outputs = IF loc.useBlockHashAgg
                                           THEN [EmptySlots EXCEPT !.bitmap = childOutputs.bitmap]
                                           ELSE EmptySlots]
                  /\ pc' = "post"
                  /\ err' = err
    /\ UNCHANGED <<groupNode, reqs, env, needsMerge, childOutputs, ret>>

(***************************************************************************)
(* Lines 1593-1614: the block pipeline ends above the aggregation stage.   *)
(***************************************************************************)
RemapGroupByOutSlots(nKeys, b2rOuts) == SubSeq(b2rOuts, 1, nKeys)

\* Mutant: the offset of the group-by slots is left out.
RemapAggOutSlots_NoOffset(nKeys, nAggs, b2rOuts) == [i \in 1..nAggs |-> b2rOuts[i]]

RemapAggOutSlots(nKeys, nAggs, b2rOuts) == [i \in 1..nAggs |-> b2rOuts[nKeys + i]]

EndBlockPipeline ==
    /\ pc = "post"
    /\ IF ~HasBlockOutput(loc.outputs)
       THEN UNCHANGED <<stage, slotDef, loc>>
       ELSE LET r == BuildBlockToRow(stage, slotDef, loc.outputs,
                                     loc.groupByOutSlots \o loc.aggOutSlots)
                ks == RemapGroupByOutSlots(Len(loc.groupByOutSlots), r.outs)
                as == RemapAggOutSlots(Len(loc.groupByOutSlots), Len(loc.aggOutSlots), r.outs)
            IN /\ stage' = r.stage
               /\ slotDef' = r.sd
               /\ loc' = [loc EXCEPT !.outputs = r.outputs,
                                     !.groupByOutSlots = ks,
                                     !.aggOutSlots = as,
                                     !.individualSlots = ks \o as]
    /\ pc' = "final"
    /\ UNCHANGED <<groupNode, reqs, env, err, needsMerge, childOutputs, ret>>

(***************************************************************************)
(* generateGroupFinalStage (lines 850-955).                                *)
(***************************************************************************)
IdFinalExpr(idConstantValue, idIsSingleKey, groupBySlots, idExpr) ==
    IF idConstantValue # None THEN idConstantValue[1]
    ELSE IF idIsSingleKey THEN Slot(groupBySlots[1])
    ELSE NewObj(KeyFieldNames(idExpr), [i \in 1..Len(groupBySlots) |-> Slot(groupBySlots[i])])

\* Mutant: the index advances by one slot per statement.
SliceStart_OnePerStatement(accs, idxAcc) == idxAcc - 1

\* The index before the first slot of statement idxAcc in the flattened slots.
SliceStart(accs, idxAcc) == SumSeq([i \in 1..idxAcc - 1 |-> accs[i].acc.numAggs])

AggSlotsOf(accs, groupOutSlots, idxAcc) ==
    SubSeq(groupOutSlots, SliceStart(accs, idxAcc) + 1,
           SliceStart(accs, idxAcc) + accs[idxAcc].acc.numAggs)

\* Mutant: a trivial final step forwards the first slot of the whole list.
FinalExpr_FirstOfAll(accs, groupOutSlots, idxAcc) ==
    IF accs[idxAcc].acc.finalizeTrivial
    THEN Slot(groupOutSlots[1])
    ELSE LET sl == AggSlotsOf(accs, groupOutSlots, idxAcc)
         IN T("finalize", accs[idxAcc].acc.op, idxAcc, [j \in 1..Len(sl) |-> Slot(sl[j])])

\* buildFinalize for statement idxAcc, or the first slot of its slice when the
\* final step is trivial.
FinalExpr(accs, groupOutSlots, idxAcc) ==
    IF accs[idxAcc].acc.finalizeTrivial
    THEN Slot(groupOutSlots[SliceStart(accs, idxAcc) + 1])
    ELSE LET sl == AggSlotsOf(accs, groupOutSlots, idxAcc)
         IN T("finalize", accs[idxAcc].acc.op, idxAcc, [j \in 1..Len(sl) |-> Slot(sl[j])])

\* Mutant: the list of field names starts out empty instead of with "_id".
FinalFieldNames_NoId(accs) == [i \in 1..Len(accs) |-> accs[i].fieldName]

FinalFieldNames(accs) == <<"_id">> \o [i \in 1..Len(accs) |-> accs[i].fieldName]

\* Mutant: the group's own flag replaces the caller's value.
NeedsMergeInFinal_GroupOnly(willBeMerged, callerNeedsMerge) == willBeMerged

NeedsMergeInFinal(willBeMerged, callerNeedsMerge) == willBeMerged /\ callerNeedsMerge

\* makeValueGuard: puts 'val' in the place of the current value and keeps the old
\* one for the scope's exit.
MakeValueGuard(current, val) == [value |-> val, old |-> current]

\* Mutant: the old value is put back only when the scope is left normally.
RestoreOnExit_NormalOnly(guard, current, thrown) == IF thrown THEN current ELSE guard.old

\* The ScopeGuard's action on scope exit, normal or by an exception.
RestoreOnExit(guard, current, thrown) == guard.old

\* The code of an invariant violation raised inside AccumOp::buildFinalize.
FinalizeError == 1

\* Lines 863-864: the guard overrides needsMerge for this group.
EnterGroupFinalStage ==
    /\ pc = "final"
    /\ LET g == MakeValueGuard(needsMerge,
                               NeedsMergeInFinal(groupNode.willBeMerged, needsMerge))
       IN /\ needsMerge' = g.value
          /\ loc' = [loc EXCEPT !.needsMergeGuard = Some(g)]
    /\ pc' = "finalizing"
    /\ UNCHANGED <<groupNode, reqs, env, err, stage, slotDef, childOutputs, ret>>

\* Lines 865-955, and the guard's restore when the function is left.
GenerateGroupFinalStage ==
    /\ pc = "finalizing"
    /\ LET accs == groupNode.accumulators
           idFinal == IdFinalExpr(loc.idConstantValue, loc.idIsSingleKey,
                                  loc.groupByOutSlots, groupNode.groupByExpression)
           p == MakeProject(stage, slotDef,
                            <<Proj(idFinal, None)>> \o
                            [i \in 1..Len(accs) |->
                                Proj(FinalExpr(accs, loc.aggOutSlots, i), None)])
           thrown == env.finalizeFails /\ accs # <<>>
       IN /\ IF thrown
             THEN /\ Abort(FinalizeError)
                  /\ UNCHANGED <<stage, slotDef>>
                  /\ loc' = [loc EXCEPT !.needsMergeInFinal = Some(needsMerge)]
             ELSE /\ stage' = p.stage
                  /\ slotDef' = p.sd
                  /\ loc' = [loc EXCEPT !.fieldNames = FinalFieldNames(accs),
                                        !.finalSlots = p.outs,
                                        !.individualSlots = loc.individualSlots \o p.outs,
                                        !.needsMergeInFinal = Some(needsMerge)]
                  /\ pc' = "finish"
                  /\ err' = err
          /\ needsMerge' = RestoreOnExit(loc.needsMergeGuard[1], needsMerge, thrown)
    /\ UNCHANGED <<groupNode, reqs, env, childOutputs, ret>>

(***************************************************************************)
(* The rest of buildGroup (lines 1236-1303).                               *)
(***************************************************************************)
GetTopLevelField(path) == path[1]

\* Mutant: the whole path, not its top-level field, is looked up among the field
\* names.
OutputFields_WholePath(fieldNames, finalSlots, reqFields) ==
    LET named == {<<fieldNames[i]>> : i \in 1..Len(fieldNames)}
        absent == {p \in reqFields : p \notin named}
    IN [p \in named \cup absent |->
           IF p \in absent THEN NothingSlot
           ELSE finalSlots[CHOOSE i \in 1..Len(fieldNames) : <<fieldNames[i]>> = p]]

\* Mutant: only the produced fields are bound.
OutputFields_ProducedOnly(fieldNames, finalSlots, reqFields) ==
    [p \in {<<fieldNames[i]>> : i \in 1..Len(fieldNames)} |->
        finalSlots[CHOOSE i \in 1..Len(fieldNames) : <<fieldNames[i]>> = p]]

\* The kField bindings of the returned outputs.
OutputFields(fieldNames, finalSlots, reqFields) ==
    LET named == {<<fieldNames[i]>> : i \in 1..Len(fieldNames)}
        absent == {p \in reqFields :
                     GetTopLevelField(p) \notin {fieldNames[i] : i \in 1..Len(fieldNames)}}
    IN [p \in named \cup absent |->
           IF p \in absent THEN NothingSlot
           ELSE finalSlots[CHOOSE i \in 1..Len(fieldNames) : <<fieldNames[i]>> = p]]

GenerateGroupResultObject(st, sd, gn, fieldNames, finalSlots) ==
    MakeProject(st, sd,
                <<Proj(T(IF gn.shouldProduceBson THEN "newBsonObj" ELSE "newObj", "", 0,
                         [i \in 1..Len(fieldNames) |-> Fld(fieldNames[i], Slot(finalSlots[i]))]),
                       None)>>)

\* getQsnInfo(root).effects narrowed to the tracked fields: the group replaces the
\* document, so an output field is set and every other field is dropped.
GroupEffects(gn, fieldNames, tracked) ==
    [f \in tracked |->
        IF \E i \in 1..Len(fieldNames) : fieldNames[i] = f THEN "SetValue" ELSE "Drop"]

\* Lines 1259-1278: whether the group can take part in the ResultInfo requirement.
CanParticipate(r, gn) == r.hasResultInfo /\ gn.hasEffects /\ r.effectsCompose

\* Mutant: a ResultInfo requirement the group cannot take part in is dropped.
ReqResultObj_NoFallback(r, gn) == r.hasResultObj

\* Lines 1255-1286: the result object is built if it is required, or if ResultInfo
\* is required and the group cannot take part in it.
ReqResultObj(r, gn) == r.hasResultObj \/ (r.hasResultInfo /\ ~CanParticipate(r, gn))

ReqResultInfo(r, gn) == r.hasResultInfo /\ CanParticipate(r, gn)

FinishBuildGroup ==
    /\ pc = "finish"
    /\ IF Len(loc.finalSlots) # 1 + Len(groupNode.accumulators)
       THEN /\ Abort(5851605)
            /\ UNCHANGED <<stage, slotDef, ret>>
       ELSE LET fields == OutputFields(loc.fieldNames, loc.finalSlots, reqs.fields)
                r == GenerateGroupResultObject(stage, slotDef, groupNode,
                                               loc.fieldNames, loc.finalSlots)
                out == [RetInit EXCEPT !.fields = fields]
            IN /\ pc' = "done"
               /\ err' = err
               /\ IF ReqResultObj(reqs, groupNode)
                  THEN /\ stage' = r.stage
                       /\ slotDef' = r.sd
                       /\ ret' = [out EXCEPT !.resultObj = Some(r.outs[1])]
                  ELSE /\ UNCHANGED <<stage, slotDef>>
                       /\ ret' = IF ReqResultInfo(reqs, groupNode)
                                 THEN [out EXCEPT
                                         !.resultInfoBaseObj = Some(EmptyObjSlot),
                                         !.resultInfoEffects =
                                             Some(GroupEffects(groupNode, loc.fieldNames,
                                                               reqs.trackedFields))]
                                 ELSE out
    /\ UNCHANGED <<groupNode, reqs, env, needsMerge, childOutputs, loc>>

(***************************************************************************)
(* What the compiled pipeline computes.  A slot's value on the rows of one *)
(* group follows from its defining expression: projections, conversions    *)
(* and key outputs carry the value of what they read, an aggregate folds   *)
(* its argument over the rows of the group, and the accumulator catalogue's*)
(* functions are left uninterpreted (a term over their argument values).   *)
(***************************************************************************)
GetField(v, name) ==
    IF v.h = "obj" /\ \E i \in 1..Len(v.args) : v.args[i].s = name
    THEN v.args[CHOOSE i \in 1..Len(v.args) : v.args[i].s = name].args[1]
    ELSE Missing

RECURSIVE GetPath(_, _)
GetPath(v, comps) == IF comps = <<>> THEN v
                     ELSE GetPath(GetField(v, Head(comps).s), Tail(comps))

RootOf(row) == Obj(<<Fld("a", row.a), Fld("b", row.b)>>)

RECURSIVE Eval(_, _)
Eval(e, rows) ==
    CASE e.h = "const" -> e.args[1]
      [] e.h = "slot" -> Eval(slotDef[e.n], rows)
      [] e.h = "field" -> rows[1][e.s]
      [] e.h = "root" -> RootOf(rows[1])
      [] e.h = "getField" -> GetField(Eval(e.args[1], rows), e.s)
      [] e.h = "traverse" -> GetPath(Eval(e.args[1], rows), Tail(e.args))
      [] e.h = "fillEmpty" -> LET v == Eval(e.args[1], rows)
                              IN IF v = Missing THEN Eval(e.args[2], rows) ELSE v
      [] e.h \in {"vec", "b2r", "blockArg", "accData", "keyOut"} ->
           Eval(e.args[1], rows)
      [] e.h = "aggOut" ->
           T("accv", "", 0, <<Eval(e.args[2], rows), Eval(e.args[1], rows)>>)
      [] e.h \in {"agg", "blockAgg"} ->
           T("aggv", e.s, e.n, [i \in 1..Len(rows) |-> Eval(e.args[1], <<rows[i]>>)])
      [] e.h \in {"newObj", "newBsonObj"} ->
           Obj([i \in 1..Len(e.args) |-> Fld(e.args[i].s, Eval(e.args[i].args[1], rows))])
      [] e.h = "isObject" ->
           IF Eval(e.args[1], rows).h = "obj" THEN T("val", "true", 0, <<>>)
           ELSE T("val", "false", 0, <<>>)
      [] e.h = "if" ->
           IF Eval(e.args[1], rows) = T("val", "true", 0, <<>>)
           THEN Eval(e.args[2], rows) ELSE Eval(e.args[3], rows)
      [] e.h = "atMostOneArray" ->
           IF Cardinality({i \in 1..Len(e.args) : Eval(e.args[i], rows).h = "arr"}) <= 1
           THEN T("val", "true", 0, <<>>) ELSE T("val", "false", 0, <<>>)
      \* An error raised by an argument is raised by the expression.
      [] OTHER -> LET vs == [i \in 1..Len(e.args) |-> Eval(e.args[i], rows)]
                      failed == {i \in 1..Len(vs) : vs[i].h = "fail"}
                  IN IF failed = {} THEN T(e.h, e.s, e.n, vs)
                     ELSE vs[CHOOSE i \in failed : \A k \in failed : i <= k]

\* The value of an MQL expression on a document.
RECURSIVE MqlEval(_, _)
MqlEval(e, row) ==
    CASE e.h = "mqlConst" -> e.args[1]
      [] e.h = "mqlField" /\ e.n # RootId -> Missing
      [] e.h = "mqlField" /\ e.s = "" -> RootOf(row)
      [] e.h = "mqlField" -> GetPath(row[e.s], e.args)
      [] e.h = "mqlCall" -> T("call", e.s, 0, <<MqlEval(e.args[1], row)>>)
      [] OTHER -> Missing

FillNull(v) == IF v = Missing THEN Null ELSE v

AVals == {Missing, Null, V1, Obj(<<Fld("c", V1)>>), EmptyObj}

BVals == {Missing, Null, V1, V2}

Rows == [a : AVals, b : BVals]

\* The position of the aggregation stage in the pipeline, or 0.
AggStageIdx ==
    IF \E i \in 1..Len(stage) : stage[i].kind \in {"hash_agg", "block_hash_agg"}
    THEN CHOOSE i \in 1..Len(stage) : stage[i].kind \in {"hash_agg", "block_hash_agg"}
    ELSE 0

AggStage == stage[AggStageIdx]

Accs == groupNode.accumulators

IdExpr == groupNode.groupByExpression

\* The value of the returned "_id" slot for the group of 'row'.
FinalIdOf(row) == Eval(Slot(ret.fields[<<"_id">>]), <<row>>)

\* The values of the aggregation stage's group-by input slots on 'row'.
GroupKeyOf(row) == [i \in 1..Len(AggStage.keys) |-> Eval(Slot(AggStage.keys[i]), <<row>>)]

Next ==
    \/ BuildGroupEntry
    \/ MaterializePaths
    \/ CompileKeys
    \/ DecideBlockHashAgg
    \/ AttemptBlockAggs
    \/ ClosePipeline
    \/ GenerateRowAggs
    \/ SetUpInitRoot
    \/ GenerateMerging
    \/ AssembleAggregation
    \/ EndBlockPipeline
    \/ EnterGroupFinalStage
    \/ GenerateGroupFinalStage
    \/ FinishBuildGroup

Spec == Init /\ [][Next]_vars

(***************************************************************************)
(* Claims.                                                                 *)
(***************************************************************************)
Done == pc = "done"

ChildWasColumnar == \E n \in 1..Len(slotDef) : slotDef[n].h = "bitmap"

\* C1: after a successful compilation the field names are "_id" followed by the
\* accumulator field names in declaration order, there are 1 + #statements output
\* slots, name i is bound to slot i, slot 1 holds the key and slot i + 1 holds the
\* finalized value of statement i.
C1_OutputOrder ==
    Done =>
        /\ loc.fieldNames = <<"_id">> \o [i \in 1..Len(Accs) |-> Accs[i].fieldName]
        /\ Len(loc.finalSlots) = 1 + Len(Accs)
        /\ \A i \in 1..Len(loc.fieldNames) :
              ret.fields[<<loc.fieldNames[i]>>] = loc.finalSlots[i]
        /\ \A r \in Rows :
              FinalIdOf(r) = Eval(IdFinalExpr(loc.idConstantValue, loc.idIsSingleKey,
                                              loc.groupByOutSlots, IdExpr), <<r>>)
        /\ \A i \in 1..Len(Accs) :
              IF Accs[i].acc.finalizeTrivial
              THEN loc.finalSlots[i + 1] \in SeqToSet(AggSlotsOf(Accs, loc.aggOutSlots, i))
              ELSE /\ slotDef[loc.finalSlots[i + 1]].h = "finalize"
                   /\ slotDef[loc.finalSlots[i + 1]].n = i

C1_Witness ==
    /\ Done
    /\ loc.useBlockHashAgg
    /\ Len(Accs) = 2
    /\ ~IsObjectKey(IdExpr)

\* C2: with a single non-object key the finalized "_id" is never missing; a row
\* whose key expression evaluates to missing is grouped under null and its group
\* reports "_id": null.
C2_SingleKeyNeverMissing ==
    (Done /\ ~IsObjectKey(IdExpr)) =>
        \A r \in Rows :
            /\ FinalIdOf(r) # Missing
            /\ \A i \in 1..Len(AggStage.keys) : GroupKeyOf(r)[i] # Missing
            /\ MqlEval(IdExpr, r) = Missing =>
                  /\ FinalIdOf(r) = Null
                  /\ \A i \in 1..Len(AggStage.keys) : GroupKeyOf(r)[i] = Null

C2_Witness ==
    /\ Done
    /\ IdExpr = PathAC
    /\ loc.vectorizedGroupByExprs
    /\ loc.useBlockHashAgg
    /\ \E r \in Rows : MqlEval(IdExpr, r) = Missing /\ FinalIdOf(r) = Null

KeyPartExpr(i) == IdExpr.args[i].args[1]

IdIsObjectOfParts(v) ==
    /\ v.h = "obj"
    /\ Len(v.args) = Len(IdExpr.args)
    /\ \A i \in 1..Len(v.args) : v.args[i].s = IdExpr.args[i].s

\* C3 as stated: with an object key of N >= 1 parts the finalized "_id" is an
\* object of exactly those field names in declaration order and no part is
\* null-collapsed, for N = 1 too.
C3_Original ==
    (Done /\ IsObjectKey(IdExpr) /\ Len(IdExpr.args) >= 1) =>
        \A r \in Rows :
            /\ IdIsObjectOfParts(FinalIdOf(r))
            /\ \A i \in 1..Len(IdExpr.args) :
                  FinalIdOf(r).args[i].args[1] = MqlEval(KeyPartExpr(i), r)

\* C3 amended: with an object key of N parts the finalized "_id" is an object of
\* exactly those field names in declaration order; for N >= 2 a missing part
\* stays missing, and for N = 1 the sole part is null-collapsed.
C3_ObjectKey ==
    (Done /\ IsObjectKey(IdExpr)) =>
        \A r \in Rows :
            /\ IdIsObjectOfParts(FinalIdOf(r))
            /\ \A i \in 1..Len(IdExpr.args) :
                  FinalIdOf(r).args[i].args[1] =
                      IF Len(IdExpr.args) = 1 THEN FillNull(MqlEval(KeyPartExpr(i), r))
                      ELSE MqlEval(KeyPartExpr(i), r)

C3_Witness ==
    /\ Done
    /\ IsObjectKey(IdExpr)
    /\ Len(IdExpr.args) = 2
    /\ \E r \in Rows : FinalIdOf(r).args[1].args[1] = Missing

AggAssembled == pc \in {"post", "final", "finalizing", "finish", "done"}

SomeAccumFailsColumnar ==
    \E i \in 1..Len(Accs) :
        \/ ~Accs[i].acc.hasBuildAddBlockExprs
        \/ ~Accs[i].acc.hasBuildAddBlockAggs
        \/ ~Accs[i].acc.blockExprsOk
        \/ ~Accs[i].acc.blockAggsOk

\* The row-mode aggregate expressions of statement i over the child's outputs.
RowAggsOf(i) ==
    [j \in 1..Accs[i].acc.numUpdates |->
        [init |-> InitExpr(Accs[i].acc, j, loc.slotIdForInitRoot),
         blockAgg |-> NullExpr,
         rowAgg |-> T("agg", Accs[i].acc.op, j, <<AccArgExpr(Accs[i].acc, childOutputs)>>)]]

\* C4: if some accumulator lacks a columnar capability or its columnar build
\* returns no result, the row-wise stage is assembled, the expressions of every
\* accumulator are the row-mode ones, and no columnar argument expression, data
\* slot or internal bitmap slot reaches the assembled stage.
C4_AllOrNothing ==
    (AggAssembled /\ SomeAccumFailsColumnar) =>
        /\ AggStage.kind = "hash_agg"
        /\ AggStage.aggs = Flatten([i \in 1..Len(Accs) |-> RowAggsOf(i)])
        /\ AggStage.args = <<>> /\ AggStage.data = <<>> /\ AggStage.bitmap = None
        /\ loc.blockAccExprs = <<>>
        /\ loc.accumulatorDataSlots = <<>>
        /\ loc.bitmapInternalSlot = None
        /\ \A n \in 1..Len(slotDef) : slotDef[n].h \notin {"blockArg", "accData"}

C4_Witness ==
    /\ Done
    /\ loc.tryToUseBlockHashAgg
    /\ ~loc.useBlockHashAgg
    /\ Len(Accs) = 2
    /\ Accs[1].acc = AccAvg
    /\ ~Accs[2].acc.blockAggsOk
    /\ AggStage.kind = "hash_agg"

\* What the group stage is to compute, from the GroupSpec and the rows alone: the
\* "_id" of the group of a row ...
RefId(row) ==
    IF IsObjectKey(IdExpr)
    THEN Obj([i \in 1..Len(IdExpr.args) |->
                 Fld(IdExpr.args[i].s,
                     IF Len(IdExpr.args) = 1
                     THEN FillNull(MqlEval(IdExpr.args[i].args[1], row))
                     ELSE MqlEval(IdExpr.args[i].args[1], row))])
    ELSE FillNull(MqlEval(IdExpr, row))

\* ... the argument an accumulator gets from a row ...
RefSortKey(acc, row) ==
    LET plan == acc.sortPlan[1]
        parts == plan.sortPattern.parts
        key(i) == T("sortKeyPart", parts[i], i, <<row[parts[i]]>>)
    IN IF plan.type = "kTraverseFields"
       THEN IF Len(parts) = 1 THEN key(1)
            ELSE IF Cardinality({i \in 1..Len(parts) : row[parts[i]].h = "arr"}) > 1
                 THEN ParallelArraysError
                 ELSE T("newArray", "", 0, [i \in 1..Len(parts) |-> key(i)])
       ELSE T("sortKeyComponentVectorToArray", "", 0,
              <<T("generateCheapSortKey", "", 0, <<RootOf(row), SortSpecExpr(acc)>>)>>)

RefArg(acc, row) ==
    IF acc.sortPlan # None
    THEN IF RefSortKey(acc, row).h = "fail" THEN RefSortKey(acc, row)
         ELSE T("topBottomN", "", 0,
                <<FillNull(MqlEval(acc.argument, row)), RefSortKey(acc, row),
                  SortSpecExpr(acc)>>)
    ELSE MqlEval(acc.argument, row)

\* ... the initial state of its j-th aggregate for a group with that "_id" ...
RefInit(acc, j, id) ==
    T("init", acc.op, j,
      IF acc.isAccumulatorN
      THEN <<IF acc.initConst THEN V1
             ELSE T("initializer", "", 0, <<IF id.h = "obj" THEN id ELSE EmptyObj>>)>>
      ELSE <<>>)

\* ... and the finalized value of statement i over the rows of a group.
RefFinal(i, rows) ==
    LET acc == Accs[i].acc
        state(j) == T("accv", "", 0,
                      <<RefInit(acc, j, RefId(rows[1])),
                        T("aggv", acc.op, j, [r \in 1..Len(rows) |-> RefArg(acc, rows[r])])>>)
    IN IF acc.finalizeTrivial THEN state(1)
       ELSE T("finalize", acc.op, i, [j \in 1..acc.numAggs |-> state(j)])

\* The rows groups are drawn from, and the groups: up to MaxGroupRows rows that
\* belong to one group.
GroupRows == {r \in Rows : r.a \in {Missing, V1, Obj(<<Fld("c", V1)>>)} /\ r.b \in {Missing, V2}}

Groups ==
    {g \in SeqsUpTo(GroupRows, MaxGroupRows) :
        g # <<>> /\ \A r \in 2..Len(g) : RefId(g[r]) = RefId(g[1])}

BlockToRowBelowAgg ==
    \E i \in 1..Len(stage) : stage[i].kind = "block_to_row" /\ i < AggStageIdx

\* C6: the columnar attempt is made, and the columnar stage assembled, only if at
\* the time of the decision the child's pipeline is columnar, no accumulator has a
\* non-constant initializer, no collator is set and every accumulator has both
\* columnar capabilities; if one of these fails the row-wise stage is assembled.
C6_EntryCondition ==
    /\ loc.tryToUseBlockHashAgg =>
          /\ pc \in {"attempt", "close"} => HasBlockOutput(childOutputs)
          /\ ChildWasColumnar
          /\ \A i \in 1..Len(Accs) : Accs[i].acc.initConst
          /\ ~env.collator
          /\ \A i \in 1..Len(Accs) :
                Accs[i].acc.hasBuildAddBlockExprs /\ Accs[i].acc.hasBuildAddBlockAggs
    /\ loc.useBlockHashAgg => loc.tryToUseBlockHashAgg
    /\ AggStageIdx # 0 =>
          /\ AggStage.kind = "block_hash_agg" => (loc.useBlockHashAgg /\ ~BlockToRowBelowAgg)
          /\ (\/ ~ChildWasColumnar
              \/ BlockToRowBelowAgg
              \/ \E i \in 1..Len(Accs) : ~Accs[i].acc.initConst
              \/ env.collator
              \/ \E i \in 1..Len(Accs) :
                    ~(Accs[i].acc.hasBuildAddBlockExprs /\ Accs[i].acc.hasBuildAddBlockAggs))
             => AggStage.kind = "hash_agg"

C6_Witness ==
    /\ Done
    /\ AggStage.kind = "block_hash_agg"
    /\ Len(Accs) = 2

ChildBuilt == pc \notin {"start", "aborted"} \/ stage # <<>>

HasBlockAggStage(st) == \E i \in 1..Len(st) : st[i].kind = "block_hash_agg"

\* C7: once the columnar pipeline coming from the child has been closed it is
\* never reopened and the columnar aggregation stage is not assembled afterwards;
\* the columnar aggregation stage is assembled only with every key vectorized.
C7_ColumnarToRowOnly ==
    [][/\ (ChildBuilt /\ ~HasBlockOutput(childOutputs)) =>
             /\ ~HasBlockOutput(childOutputs')
             /\ ~loc'.useBlockHashAgg
             /\ ~HasBlockAggStage(stage')
       /\ HasBlockAggStage(stage') =>
             /\ loc'.vectorizedGroupByExprs
             /\ \A i \in 1..Len(stage') :
                   stage'[i].kind = "block_hash_agg" =>
                       \A k \in 1..Len(stage'[i].keys) :
                           slotDef'[stage'[i].keys[k]].h = "vec"]_vars

C7_Witness ==
    /\ Done
    /\ ChildWasColumnar
    /\ ~loc.vectorizedGroupByExprs
    /\ loc.tryToUseBlockHashAgg = FALSE
    /\ CanBuildBlockExprsAndBlockAggs(Accs)
    /\ ~loc.hasVariableGroupInit
    /\ ~env.collator
    /\ env.featureFlagsAllowBlockHashAgg
    /\ AggStage.kind = "hash_agg"

\* TRUE iff the value of expression e is computed from row values only: it reads
\* no block-typed slot of the child and nothing computed in the block pipeline
\* other than through a block-to-row conversion.
RECURSIVE RowOnly(_)
RowOnly(e) ==
    CASE e.h = "slot" -> RowOnly(slotDef[e.n])
      [] e.h = "b2r" -> TRUE
      [] e.h = "field" -> e.n = 0
      [] e.h \in {"vec", "blockArg", "accData", "keyOut", "blockAgg", "bitmap", "unbound"} -> FALSE
      [] OTHER -> \A i \in 1..Len(e.args) : RowOnly(e.args[i])

\* The position of the block-to-row conversion below the aggregation stage, or 0.
ConversionIdx ==
    IF BlockToRowBelowAgg
    THEN CHOOSE i \in 1..Len(stage) : stage[i].kind = "block_to_row" /\ i < AggStageIdx
    ELSE 0

\* The number of key expressions the key compiles to.
KeyCount == IF IsObjectKey(IdExpr) THEN Len(IdExpr.args) ELSE 1

\* The slots the vectorized keys were projected to, right below the conversion.
ProjectedKeySlots == stage[ConversionIdx - 1].outs

\* The row slot the conversion unpacks block slot v into.
CarriedSlot(v) ==
    stage[ConversionIdx].outs[CHOOSE m \in 1..Len(stage[ConversionIdx].keys) :
                                 stage[ConversionIdx].keys[m] = v]

\* The conversion lies below the row-wise aggregation stage, the row-mode
\* argument expressions are generated over the converted outputs and read row
\* values only, and vectorized keys are projected right below the conversion,
\* which carries their slots through.
ConversionPrecedesRowArgs ==
    /\ AggStage.kind = "hash_agg"
    /\ BlockToRowBelowAgg
    /\ ~HasBlockOutput(childOutputs)
    /\ \A j \in 1..Len(AggStage.aggs) :
          /\ RowOnly(AggStage.aggs[j].rowAgg)
          /\ AggStage.aggs[j].rowAgg.args[1] \in
                {AccArgExpr(Accs[i].acc, childOutputs) : i \in 1..Len(Accs)}
    /\ (loc.vectorizedGroupByExprs /\ KeyCount > 0) =>
          /\ ConversionIdx > 1
          /\ stage[ConversionIdx - 1].kind = "project"
          /\ Len(ProjectedKeySlots) = KeyCount
          /\ \A k \in 1..KeyCount :
                LET v == ProjectedKeySlots[k]
                IN /\ slotDef[v].h = "vec"
                   /\ \E m \in 1..Len(stage[ConversionIdx].keys) :
                         stage[ConversionIdx].keys[m] = v
                   /\ slotDef[CarriedSlot(v)] = T("b2r", "", 0, <<Slot(v)>>)

\* C8 as stated: in that case the slots carried through the conversion are the
\* group-by inputs of the row-wise aggregation stage.
C8_Original ==
    (AggAssembled /\ ChildWasColumnar /\ SomeAccumFailsColumnar) =>
        /\ ConversionPrecedesRowArgs
        /\ (loc.vectorizedGroupByExprs /\ KeyCount > 0) =>
              AggStage.keys = [k \in 1..KeyCount |-> CarriedSlot(ProjectedKeySlots[k])]

\* C8 (amended): when the child delivers columnar output and some accumulator
\* lacks or fails its columnar form, a block-to-row conversion lies below the
\* row-wise aggregation stage and below the row-mode argument expressions, and
\* vectorized keys are projected right below the conversion and carried through
\* it.  The carried slots are the group-by inputs, except for an object key
\* with an accumulator whose initializer is not constant: there the sole
\* group-by input is the key object built from the carried slots.
C8_ConversionBeforeRowArgs ==
    (AggAssembled /\ ChildWasColumnar /\ SomeAccumFailsColumnar) =>
        /\ ConversionPrecedesRowArgs
        /\ (loc.vectorizedGroupByExprs /\ KeyCount > 0) =>
              LET carried == [k \in 1..KeyCount |-> CarriedSlot(ProjectedKeySlots[k])]
              IN IF loc.hasVariableGroupInit /\ IsObjectKey(IdExpr)
                 THEN /\ Len(AggStage.keys) = 1
                      /\ slotDef[AggStage.keys[1]] =
                            NewObj(KeyFieldNames(IdExpr),
                                   [k \in 1..KeyCount |-> Slot(carried[k])])
                 ELSE AggStage.keys = carried

C8_Witness ==
    /\ Done
    /\ ChildWasColumnar
    /\ loc.vectorizedGroupByExprs
    /\ SomeAccumFailsColumnar
    /\ Len(AggStage.keys) = 2
    /\ Len(AggStage.aggs) = 3
    /\ stage[ConversionIdx - 1].kind = "project"
    /\ AggStage.keys = <<CarriedSlot(ProjectedKeySlots[1]), CarriedSlot(ProjectedKeySlots[2])>>

EntryRejected == reqs.hasSortKeys \/ reqs.hasRecordId

\* C9: a requirement for sort keys or for a record id makes buildGroup abort with
\* the error of the violated check (6023414 or 6360401) before the child is
\* built, before any stage is emitted and before needsMerge is changed: nothing
\* of a pipeline or of an output-slot set exists.
C9_RejectsSortKeyAndRecordId ==
    EntryRejected =>
        /\ pc \in {"start", "aborted"}
        /\ pc = "aborted" => err = (IF reqs.hasSortKeys THEN 6023414 ELSE 6360401)
        /\ stage = <<>>
        /\ slotDef = InitSlotDef
        /\ childOutputs = EmptySlots
        /\ loc = LocInit
        /\ ret = RetInit
        /\ needsMerge = env.needsMerge

C9_Witness ==
    /\ pc = "aborted"
    /\ reqs.hasRecordId
    /\ ~reqs.hasSortKeys
    /\ err = 6360401
    /\ stage = <<>>

ProducedNames == {"_id"} \cup {Accs[i].fieldName : i \in 1..Len(Accs)}

ProducedFieldsBound ==
    /\ <<"_id">> \in DOMAIN ret.fields
    /\ ret.fields[<<"_id">>] = loc.finalSlots[1]
    /\ ret.fields[<<"_id">>] # NothingSlot
    /\ \A i \in 1..Len(Accs) :
          /\ <<Accs[i].fieldName>> \in DOMAIN ret.fields
          /\ ret.fields[<<Accs[i].fieldName>>] = loc.finalSlots[i + 1]
          /\ ret.fields[<<Accs[i].fieldName>>] # NothingSlot

\* C10 as stated: every requested field that is neither "_id" nor the output
\* field name of an accumulation statement is bound to the Nothing slot.
C10_Original ==
    Done =>
        /\ \A p \in reqs.fields :
              (\A n \in ProducedNames : p # <<n>>) =>
                  (p \in DOMAIN ret.fields /\ ret.fields[p] = NothingSlot)
        /\ ProducedFieldsBound

\* C10 (amended): every requested path whose top-level component is neither "_id"
\* nor the output field name of an accumulation statement is bound to the Nothing
\* slot; "_id" and every accumulator output field name are bound to their final
\* slots, never to the Nothing slot; a requested dotted path below "_id" or below
\* an accumulator output field gets no binding of its own.
C10_RequestedFields ==
    Done =>
        /\ \A p \in reqs.fields :
              /\ p[1] \notin ProducedNames =>
                    (p \in DOMAIN ret.fields /\ ret.fields[p] = NothingSlot)
              /\ (p[1] \in ProducedNames /\ Len(p) > 1) => p \notin DOMAIN ret.fields
        /\ ProducedFieldsBound

C10_Witness ==
    /\ Done
    /\ reqs.fields = {<<"x">>, <<"x", "q">>, <<"w">>, <<"w", "q">>}
    /\ ret.fields[<<"w">>] = NothingSlot
    /\ ret.fields[<<"w", "q">>] = NothingSlot
    /\ <<"x", "q">> \notin DOMAIN ret.fields
    /\ ret.fields[<<"x">>] = loc.finalSlots[2]

\* The slots defined as a result object: "_id" and the accumulator output fields.
ResultObjSlots ==
    {n \in 1..Len(slotDef) :
        /\ slotDef[n].h \in {"newObj", "newBsonObj"}
        /\ Len(slotDef[n].args) = 1 + Len(Accs)
        /\ slotDef[n].args[1].s = "_id"}

\* A result object is built from the (field name, final slot) pairs in output
\* order, in the format the GroupNode asks for, by the topmost stage, and it is
\* the returned result slot; no ResultInfo base object is returned.
ResultObjMaterialized ==
    /\ ret.resultObj # None
    /\ slotDef[ret.resultObj[1]] =
          T(IF groupNode.shouldProduceBson THEN "newBsonObj" ELSE "newObj", "", 0,
            <<Fld("_id", Slot(loc.finalSlots[1]))>> \o
            [i \in 1..Len(Accs) |-> Fld(Accs[i].fieldName, Slot(loc.finalSlots[i + 1]))])
    /\ stage[Len(stage)].kind = "project"
    /\ stage[Len(stage)].outs = <<ret.resultObj[1]>>
    /\ ResultObjSlots = {ret.resultObj[1]}
    /\ ret.resultInfoBaseObj = None
    /\ ret.resultInfoEffects = None

NoResultObj == ret.resultObj = None /\ ResultObjSlots = {}

GroupComposes == groupNode.hasEffects /\ reqs.effectsCompose

\* C11: a required result object is materialized from the (field name, final
\* slot) pairs in output order and returned as the result slot; a ResultInfo
\* requirement the group's effects compose with yields no result object but the
\* empty base object and the group's effects; a ResultInfo requirement the group
\* cannot take part in yields a result object; with neither requirement no result
\* object is built.
C11_OutputShape ==
    Done =>
        /\ reqs.hasResultObj => ResultObjMaterialized
        /\ (reqs.hasResultInfo /\ ~reqs.hasResultObj /\ GroupComposes) =>
              /\ NoResultObj
              /\ ret.resultInfoBaseObj = Some(EmptyObjSlot)
              /\ slotDef[EmptyObjSlot] = Const(EmptyObj)
              /\ ret.resultInfoEffects # None
              /\ DOMAIN ret.resultInfoEffects[1] = reqs.trackedFields
              /\ \A f \in reqs.trackedFields :
                    ret.resultInfoEffects[1][f] =
                        IF f \in ProducedNames THEN "SetValue" ELSE "Drop"
        /\ (reqs.hasResultInfo /\ ~GroupComposes) => ResultObjMaterialized
        /\ (~reqs.hasResultObj /\ ~reqs.hasResultInfo) =>
              /\ NoResultObj
              /\ ret.resultInfoBaseObj = None
              /\ ret.resultInfoEffects = None

C11_Witness ==
    /\ Done
    /\ reqs.hasResultInfo
    /\ ~reqs.hasResultObj
    /\ ~groupNode.hasEffects
    /\ reqs.effectsCompose
    /\ ResultObjMaterialized

\* C12: outside generateGroupFinalStage needsMerge has the value it had when the
\* compilation of the group started, in particular when buildGroup has returned
\* and when it was left by an invariant violation raised during finalization.
C12_NeedsMergeRestored ==
    /\ pc # "finalizing" => needsMerge = env.needsMerge
    /\ pc = "finalizing" =>
          /\ loc.needsMergeGuard # None
          /\ loc.needsMergeGuard[1].old = env.needsMerge

C12_Witness ==
    /\ pc = "aborted"
    /\ err = FinalizeError
    /\ env.needsMerge
    /\ loc.needsMergeInFinal = Some(FALSE)
    /\ needsMerge

PastMerging == pc \in {"agg", "post", "final", "finalizing", "finish", "done"}

MergeContractBroken ==
    \E i \in 1..Len(Accs) :
        Accs[i].acc.numAggs <= 0 \/ Accs[i].acc.numCombine # Accs[i].acc.numAggs

MergeSlotsOf(mergingExprs) ==
    LET flat == Flatten(mergingExprs) IN [k \in 1..Len(flat) |-> flat[k].slot]

\* C13: once the merging expressions have been generated there is one list per
\* accumulation statement, the list of a statement has getNumAggs (> 0) entries,
\* entry j pairs the j-th merge expression of the statement with the j-th of the
\* fresh, pairwise distinct recovery slots allocated for it, and the hash
\* aggregation stage carries exactly these entries; when an accumulator has no
\* internal aggregate or its combine step returns another number of
\* expressions, no list is produced and the compilation never gets past the
\* generation of the merging expressions.
C13_MergeEntries ==
    /\ PastMerging => Len(loc.mergingExprs) = Len(Accs)
    /\ loc.mergingExprs # <<>> =>
          /\ Len(loc.mergingExprs) = Len(Accs)
          /\ \A i \in 1..Len(Accs) :
                LET m == loc.mergingExprs[i]
                IN /\ Len(m) = Accs[i].acc.numAggs
                   /\ Len(m) > 0
                   /\ \A j \in 1..Len(m) :
                         /\ m[j].slot = m[1].slot + j - 1
                         /\ m[j].slot \in 1..Len(slotDef)
                         /\ slotDef[m[j].slot].h = "spill"
                         /\ m[j].expr = T("merge", Accs[i].acc.op, j, <<Slot(m[j].slot)>>)
          /\ LET sl == MergeSlotsOf(loc.mergingExprs)
             IN \A a, b \in 1..Len(sl) : a # b => sl[a] # sl[b]
    /\ AggStageIdx # 0 => AggStage.merges = Flatten(loc.mergingExprs)
    /\ MergeContractBroken =>
          /\ ~PastMerging
          /\ loc.mergingExprs = <<>>
          /\ AggStageIdx = 0
          /\ \A n \in 1..Len(slotDef) : slotDef[n].h # "spill"

C13_Witness ==
    /\ Done
    /\ Len(Accs) = 2
    /\ Accs[1].acc.numAggs = 1
    /\ Accs[2].acc.numAggs = 2
    /\ Len(AggStage.merges) = 3
    /\ AggStage.merges[3].expr.n = 2

ChildReqsComputed == loc.childReqs # None

OrderSensitive(i) == Accs[i].acc.sortPlan # None

SortKeysNeedWholeRow(i) ==
    OrderSensitive(i) /\ Accs[i].acc.sortPlan[1].needsResultObj

\* C15: the requirements computed for the child ask for the result object iff
\* needWholeDocument is set or, needWholeDocument not being set, the sort key
\* plan of some order-sensitive accumulator needs the result object; otherwise
\* (in particular without any order-sensitive accumulator) they do not, and the
\* child delivers a result object exactly when asked.
C15_WholeRowRequest ==
    ChildReqsComputed =>
        /\ loc.childReqs[1].result <=>
              (\/ groupNode.needWholeDocument
               \/ /\ ~groupNode.needWholeDocument
                  /\ \E i \in 1..Len(Accs) : SortKeysNeedWholeRow(i))
        /\ (~groupNode.needWholeDocument /\ \A i \in 1..Len(Accs) : ~OrderSensitive(i))
              => ~loc.childReqs[1].result
        /\ (pc = "paths") =>
              ((childOutputs.resultObj # None) <=> loc.childReqs[1].result)

C15_Witness ==
    /\ pc = "paths"
    /\ ~groupNode.needWholeDocument
    /\ Len(Accs) = 2
    /\ ~OrderSensitive(1)
    /\ SortKeysNeedWholeRow(2)
    /\ loc.childReqs[1].result
    /\ childOutputs.resultObj # None

\* The top-level fields of the current document under the key and the arguments.
TopLevelFieldsOf(e) == {f.s : f \in {g \in FieldRefs(e) : g.n = RootId /\ g.s # ""}}

ReferencedTopLevelFields ==
    TopLevelFieldsOf(IdExpr) \cup
    UNION {TopLevelFieldsOf(Accs[i].acc.argument) : i \in 1..Len(Accs)}

SortKeyFields ==
    UNION {Accs[i].acc.sortPlan[1].fieldsForSortKeys :
              i \in {k \in 1..Len(Accs) : OrderSensitive(k)}}

ParentFieldNames == {DottedName(p) : p \in reqs.fields}

\* C16: the fields requested from the child are the top-level fields the group
\* key and the accumulator arguments reference, also when the result object is
\* requested, together with the fields of the sort key plans when
\* needWholeDocument is not set; a field the parent asked for is among them only
\* if the group needs it itself; and the requirements of the parent never change.
C16_FieldRequests ==
    /\ [](ChildReqsComputed =>
            /\ ReferencedTopLevelFields \subseteq loc.childReqs[1].fields
            /\ (~groupNode.needWholeDocument) =>
                  (SortKeyFields \subseteq loc.childReqs[1].fields)
            /\ loc.childReqs[1].fields \subseteq ReferencedTopLevelFields \cup SortKeyFields
            /\ \A f \in ParentFieldNames \cap loc.childReqs[1].fields :
                  f \in ReferencedTopLevelFields \cup
                        (IF groupNode.needWholeDocument THEN {} ELSE SortKeyFields)
            /\ (pc = "paths") => (DOMAIN childOutputs.fields = loc.childReqs[1].fields))
    /\ [][reqs' = reqs]_vars

C16_Witness ==
    /\ pc = "paths"
    /\ groupNode.needWholeDocument
    /\ loc.childReqs[1].result
    /\ loc.childReqs[1].fields = {"a", "b"}
    /\ \E i \in 1..Len(Accs) : OrderSensitive(i)
    /\ reqs.fields # {}
    /\ ParentFieldNames \cap loc.childReqs[1].fields = {}

PathsMaterialized == loc.childReqs # None /\ pc # "paths"

AfterMaterializer == pc = "keys"

\* The references to a path of the current document, and the strings of the
\* dotted paths that are to be cached: those not on a user-defined variable.
DocumentRefs == {e \in GroupFieldRefs(groupNode) : e.n = RootId /\ e.s # ""}

CachedRefs ==
    {e \in GroupFieldRefs(groupNode) : e.s # "" /\ e.n # UserVarId /\ e.args # <<>>}

ProjectStages == {i \in 1..Len(stage) : stage[i].kind = "project"}

NumProjected == SumSeq([i \in 1..Len(stage) |->
                          IF i \in ProjectStages THEN Len(stage[i].outs) ELSE 0])

\* C17: once the dotted paths have been materialized, every reference of the key
\* and of the accumulator arguments to a path of the current document has a slot,
\* whether the child is columnar or not: a dotted path under its path string
\* among the path expression slots, a top-level field among the field slots of
\* the child; every path string is bound by exactly one projection to a slot of
\* its own, which holds the traversal of that path.
C17_PathsResolve ==
    /\ PathsMaterialized =>
          \A e \in DocumentRefs :
             IF e.args # <<>> THEN PathOf(e) \in DOMAIN childOutputs.pathExprs
             ELSE e.s \in DOMAIN childOutputs.fields
    /\ AfterMaterializer =>
          /\ DOMAIN childOutputs.pathExprs = {PathOf(e) : e \in CachedRefs}
          /\ NumProjected = Cardinality(DOMAIN childOutputs.pathExprs)
          /\ \A p, q \in DOMAIN childOutputs.pathExprs :
                p # q => childOutputs.pathExprs[p] # childOutputs.pathExprs[q]
          /\ \A p \in DOMAIN childOutputs.pathExprs :
                /\ \E i \in ProjectStages :
                      \E k \in 1..Len(stage[i].outs) :
                          stage[i].outs[k] = childOutputs.pathExprs[p]
                /\ LET d == slotDef[childOutputs.pathExprs[p]]
                   IN /\ d.h = "traverse"
                      /\ [i \in 1..Len(d.args) - 1 |-> d.args[i + 1].s] = Tail(p)
                      /\ \/ d.args[1].h = "getField" /\ d.args[1].s = Head(p)
                         \/ /\ d.args[1].h = "slot"
                            /\ Head(p) \in DOMAIN childOutputs.fields
                            /\ d.args[1].n = childOutputs.fields[Head(p)]

C17_Witness ==
    /\ AfterMaterializer
    /\ ChildWasColumnar
    /\ Len(SelectSeq(GroupFieldRefSeq(groupNode), LAMBDA e : e = PathAC)) = 2
    /\ PathBD \in DocumentRefs
    /\ DOMAIN childOutputs.pathExprs = {<<"a", "c">>, <<"b", "d">>}
    /\ NumProjected = 2

\* The child delivered the top-level field as a block.
BlockBackedField(name) ==
    \E k \in 1..Len(slotDef) : slotDef[k] = T("field", name, 1, <<>>)

\* The collected paths whose top-level field of the current document is a block,
\* and the other collected paths; a path on a variable is among the latter.
BlockBackedPaths ==
    {PathOf(e) : e \in {f \in CachedRefs : f.n = RootId /\ BlockBackedField(f.s)}}

ScalarBackedPaths == {PathOf(e) : e \in CachedRefs} \ BlockBackedPaths

StageKinds == [i \in 1..Len(stage) |-> stage[i].kind]

PathSlots(paths) == {childOutputs.pathExprs[p] : p \in paths}

StageOuts(i) == {stage[i].outs[k] : k \in 1..Len(stage[i].outs)}

\* C18: over a columnar child the materializer first projects the scalar-backed
\* paths, among them every path on a variable other than the current document,
\* then converts the blocks to rows iff some collected path is block-backed, and
\* projects the block-backed paths above the conversion, from the converted
\* slots; without a block-backed path there is no conversion and the columnar
\* pipeline stays open.
C18_MaterializerOrder ==
    (AfterMaterializer /\ ChildWasColumnar) =>
        /\ StageKinds =
              <<"child">> \o
              (IF ScalarBackedPaths # {} THEN <<"project">> ELSE <<>>) \o
              (IF BlockBackedPaths # {} THEN <<"block_to_row", "project">> ELSE <<>>)
        /\ ScalarBackedPaths # {} => StageOuts(2) = PathSlots(ScalarBackedPaths)
        /\ BlockBackedPaths # {} =>
              /\ StageOuts(Len(stage)) = PathSlots(BlockBackedPaths)
              /\ \A n \in PathSlots(BlockBackedPaths) :
                    /\ slotDef[n].args[1].h = "slot"
                    /\ slotDef[slotDef[n].args[1].n].h = "b2r"
        /\ \A n \in PathSlots(ScalarBackedPaths) :
              slotDef[n].args[1].h = "slot" => slotDef[slotDef[n].args[1].n].h = "field"
        /\ HasBlockOutput(childOutputs) <=> (BlockBackedPaths = {})
        /\ \A e \in CachedRefs : e.n # RootId => PathOf(e) \in ScalarBackedPaths

C18_Witness ==
    /\ AfterMaterializer
    /\ ChildWasColumnar
    /\ BlockBackedField("a")
    /\ BuiltinPathAE \in CachedRefs
    /\ StageKinds = <<"child", "project", "block_to_row", "project">>
    /\ childOutputs.pathExprs[<<"a", "e">>] \in StageOuts(2)
    /\ childOutputs.pathExprs[<<"a", "c">>] \in StageOuts(4)

\* The statements whose traverse-fields sort key plan comes with a check for
\* parallel arrays.
HasParallelArraysCheck(i) ==
    /\ OrderSensitive(i)
    /\ Accs[i].acc.sortPlan[1].type = "kTraverseFields"
    /\ Len(Accs[i].acc.sortPlan[1].sortPattern.parts) >= 2

\* The sort key expression(s) in the argument of the aggregate of statement i in
\* the assembled stage: the row form is one expression, the columnar form a
\* vector whose first expression carries the check.
RowSortByExpr(i) == loc.sbAggExprs[1][i][1].rowAgg.args[1].args[2]

BlockSortByExprs(i) == loc.blockAccExprs[i][1].args[1].args[2].args

IsGuarded(e, key) ==
    /\ e.h = "if"
    /\ e.args[1].h = "atMostOneArray"
    /\ e.args[2] = key
    /\ e.args[3] = T("fail", "cannot sort with keys that are parallel arrays", BadValue, <<>>)

\* Documents with and without arrays under the fields of the sort pattern.
SortRows == [a : {V1, ArrV}, b : {Missing, V2, ArrV}]

IsParallelArrays(row) == row.a = ArrV /\ row.b = ArrV

SortKeyOf(i, row) ==
    LET parts == Accs[i].acc.sortPlan[1].sortPattern.parts
    IN T("newArray", "", 0,
         [k \in 1..Len(parts) |-> T("sortKeyPart", parts[k], k, <<row[parts[k]]>>)])

\* C19: a statement whose sort key plan has a check for parallel arrays
\* compiles (no compilation is aborted because of it), and in the assembled
\* stage its sort key expression is the conditional on that check whose value is
\* the sort key and whose alternative raises "cannot sort with keys that are
\* parallel arrays", in the row form around the whole key and in the columnar
\* form around the first key; on a document it yields the sort key unless the
\* document has parallel arrays, and then the error and no key.
C19_ParallelArraysGuard ==
    /\ (pc = "aborted" /\ \E i \in 1..Len(Accs) : HasParallelArraysCheck(i))
          => (err = FinalizeError /\ env.finalizeFails)
    /\ AggAssembled =>
          \A i \in {k \in 1..Len(Accs) : HasParallelArraysCheck(k)} :
             /\ AggStage.kind = "hash_agg" =>
                   /\ IsGuarded(RowSortByExpr(i), RowSortByExpr(i).args[2])
                   /\ RowSortByExpr(i).args[2].h = "newArray"
                   /\ \A row \in SortRows :
                         Eval(RowSortByExpr(i), <<row>>) =
                            IF IsParallelArrays(row) THEN ParallelArraysError
                            ELSE SortKeyOf(i, row)
             /\ AggStage.kind = "block_hash_agg" =>
                   /\ IsGuarded(BlockSortByExprs(i)[1], BlockSortByExprs(i)[1].args[2])
                   /\ BlockSortByExprs(i)[1].args[2].h = "sortKeyPart"
                   /\ \A row \in SortRows :
                         Eval(loc.blockAccExprs[i][1].args[1].args[2], <<row>>) =
                            IF IsParallelArrays(row) THEN ParallelArraysError
                            ELSE SortKeyOf(i, row)

C19_Witness ==
    /\ Done
    /\ AggStage.kind = "hash_agg"
    /\ \E i \in 1..Len(Accs) :
          /\ HasParallelArraysCheck(i)
          /\ IsGuarded(RowSortByExpr(i), RowSortByExpr(i).args[2])
          /\ Eval(RowSortByExpr(i), <<[a |-> ArrV, b |-> ArrV]>>) = ParallelArraysError
          /\ Eval(RowSortByExpr(i), <<[a |-> ArrV, b |-> V2]>>).h = "newArray"

InitUpdateMismatch == \E i \in 1..Len(Accs) : Accs[i].acc.numInits # Accs[i].acc.numUpdates

PastAggs == pc \in {"initroot", "merge", "agg", "post", "final", "finalizing", "finish",
                    "done"}

AllTriples == Flatten(loc.sbAggExprs[1])

\* C20: the SbAggExprs of a statement are as many as its initializers and as its
\* aggregates, the j-th one made of the j-th initializer, the j-th row aggregate
\* and, when block aggregates were generated, the j-th block aggregate; they
\* are what the aggregation stage is given, all with a block aggregate in the
\* columnar stage and all without in the row-wise stage; when an accumulator
\* returns initializers and aggregates in different numbers no SbAggExpr is ever
\* produced and the compilation is aborted by tassert 7567301.
C20_AggExprTriples ==
    /\ loc.sbAggExprs # None =>
          /\ Len(loc.sbAggExprs[1]) = Len(Accs)
          /\ \A i \in 1..Len(Accs) :
                LET triples == loc.sbAggExprs[1][i]
                    acc == Accs[i].acc
                IN /\ Len(triples) = acc.numInits
                   /\ Len(triples) = acc.numUpdates
                   /\ \A j \in 1..Len(triples) :
                         /\ triples[j].init.h = "init"
                         /\ triples[j].init.s = acc.op /\ triples[j].init.n = j
                         /\ triples[j].rowAgg.h = "agg"
                         /\ triples[j].rowAgg.s = acc.op /\ triples[j].rowAgg.n = j
                         /\ \/ IsNullExpr(triples[j].blockAgg)
                            \/ /\ triples[j].blockAgg.h = "blockAgg"
                               /\ triples[j].blockAgg.s = acc.op
                               /\ triples[j].blockAgg.n = j
    /\ PastAggs => loc.sbAggExprs # None
    /\ AggStageIdx # 0 =>
          /\ AggStage.aggs = AllTriples
          /\ AggStage.kind = "block_hash_agg" =>
                \A k \in 1..Len(AllTriples) : ~IsNullExpr(AllTriples[k].blockAgg)
          /\ AggStage.kind = "hash_agg" =>
                \A k \in 1..Len(AllTriples) : IsNullExpr(AllTriples[k].blockAgg)
    /\ InitUpdateMismatch =>
          /\ loc.sbAggExprs = None
          /\ ~PastAggs
          /\ AggStageIdx = 0
          /\ pc = "aborted" => err = 7567301

C20_Witness ==
    /\ Done
    /\ AggStage.kind = "block_hash_agg"
    /\ Len(Accs) = 2
    /\ Len(loc.sbAggExprs[1][1]) = 1
    /\ Len(loc.sbAggExprs[1][2]) = 2
    /\ Len(AggStage.aggs) = 3
    /\ AggStage.aggs[3].blockAgg.n = 2
    /\ AggStage.aggs[3].init.n = 2

PastInitRoot == pc \in {"merge", "agg", "post", "final", "finalizing", "finish", "done"}

RootReserved == pc \in {"decide", "attempt", "close", "rowaggs", "initroot"}

\* The key is known to be an object when it is compiled: an object key
\* expression, or a constant of object type that was not vectorized.
KeyKnownToBeObj ==
    \/ IsObjectKey(IdExpr)
    \/ IdExpr.h = "mqlConst" /\ IdExpr.args[1].h = "obj" /\ ~loc.vectorizedGroupByExprs

\* The project stages that bind slot n.
ProjectionsOf(n) ==
    {i \in 1..Len(stage) :
        stage[i].kind = "project" /\ \E k \in 1..Len(stage[i].outs) : stage[i].outs[k] = n}

\* C21: with an accumulator whose initializer is not constant, a slot id is
\* reserved for the root of the initializers before the aggregate expressions
\* are generated and is left undefined until generateInitRootSlot; that very slot
\* is then defined by exactly one projection, below the aggregation stage, as the
\* key itself when the key is known to be an object and as
\* isObject(key) ? key : {} otherwise, so its value is always an object; the
\* initializers read that slot; the stage groups by exactly one key slot (an
\* object key is combined into one object under its field names) and the
\* constant-key shortcut is not taken.  Without such an accumulator no slot is
\* reserved.
C21_InitRootSlot ==
    /\ ~HasVariableGroupInit(Accs) =>
          (loc.slotIdForInitRoot = None /\ loc.initRootSlot = None)
    /\ (HasVariableGroupInit(Accs) /\ RootReserved) =>
          /\ loc.slotIdForInitRoot # None
          /\ slotDef[loc.slotIdForInitRoot[1]].h = "unbound"
          /\ ProjectionsOf(loc.slotIdForInitRoot[1]) = {}
    /\ (HasVariableGroupInit(Accs) /\ PastInitRoot) =>
          LET root == loc.initRootSlot[1]
              key == loc.groupByExprs[1].n
          IN /\ loc.initRootSlot # None
             /\ loc.initRootSlot = loc.slotIdForInitRoot
             /\ Cardinality(ProjectionsOf(root)) = 1
             /\ AggStageIdx # 0 => \A i \in ProjectionsOf(root) : i < AggStageIdx
             /\ loc.groupByExprs = <<Slot(key)>>
             /\ IF KeyKnownToBeObj
                THEN /\ root = key
                     /\ IsObjectKey(IdExpr) =>
                           /\ slotDef[root].h = "newObj"
                           /\ [i \in 1..Len(slotDef[root].args) |-> slotDef[root].args[i].s]
                                 = KeyFieldNames(IdExpr)
                ELSE /\ root # key
                     /\ slotDef[root] =
                           T("if", "", 0, <<T("isObject", "", 0, <<Slot(key)>>),
                                            Slot(key), Const(EmptyObj)>>)
             /\ \A r \in Rows :
                   /\ Eval(Slot(key), <<r>>) = RefId(r)
                   /\ Eval(Slot(root), <<r>>).h = "obj"
                   /\ Eval(Slot(root), <<r>>) =
                         IF RefId(r).h = "obj" THEN RefId(r) ELSE EmptyObj
             /\ loc.idConstantValue = None
             /\ AggStageIdx # 0 =>
                   /\ AggStage.keys = <<key>>
                   /\ \A k \in 1..Len(AggStage.aggs) :
                         \A a \in 1..Len(AggStage.aggs[k].init.args) :
                            AggStage.aggs[k].init.args[a].h = "initializer" =>
                               AggStage.aggs[k].init.args[a].args = <<Slot(root)>>

C21_Witness ==
    /\ Done
    /\ HasVariableGroupInit(Accs)
    /\ ChildWasColumnar
    /\ ~IsObjectKey(IdExpr)
    /\ ~KeyKnownToBeObj
    /\ slotDef[loc.initRootSlot[1]].h = "if"
    /\ AggStage.aggs[1].init.args = <<T("initializer", "", 0, <<Slot(loc.initRootSlot[1])>>)>>
    /\ \E r \in Rows : Eval(Slot(loc.initRootSlot[1]), <<r>>) = EmptyObj /\ RefId(r) # EmptyObj

\* Every accumulator keeps the contract of getNumAggs: buildAddAggs and
\* buildAddBlockAggs return that many aggregates.
ContractKept == \A i \in 1..Len(Accs) : Accs[i].acc.numUpdates = Accs[i].acc.numAggs

PastFinalStage == pc \in {"finish", "done"}

\* The output slot of the aggregation stage that slot n carries: n itself, or the
\* slot a block-to-row conversion unpacks into n.
StageOutOf(n) == IF slotDef[n].h = "b2r" THEN slotDef[n].args[1].n ELSE n

\* The slice of the flattened aggregate-output slots that belongs to statement k.
SliceOf(k) ==
    LET start == SumSeq([i \in 1..k - 1 |-> Accs[i].acc.numAggs])
    IN [j \in 1..Accs[k].acc.numAggs |-> loc.aggOutSlots[start + j]]

\* C22: the aggregate-output slots are the outputs of the aggregation stage
\* after its key outputs, one per aggregate, flattened in statement order and
\* in each statement's own order; in the columnar variant they are the slots the
\* conversion to rows unpacks these outputs into, in the same order; the slice of
\* statement k starts after the aggregates of the statements before it and has
\* as many slots as the statement has aggregates; the slices are pairwise
\* disjoint, their concatenation is the whole list, and finalization reads for
\* statement k the slots of slice k.
C22_AggSlices ==
    (AggAssembled /\ ContractKept) =>
        LET nKeys == Len(loc.groupByOutSlots)
            n == Len(loc.aggOutSlots)
        IN /\ n = SumSeq([i \in 1..Len(Accs) |-> Accs[i].acc.numAggs])
           /\ n = Len(AggStage.aggs)
           /\ Len(AggStage.outs) = nKeys + n
           /\ \A a, b \in 1..n : a # b => loc.aggOutSlots[a] # loc.aggOutSlots[b]
           /\ \A a \in 1..n :
                 /\ StageOutOf(loc.aggOutSlots[a]) = AggStage.outs[nKeys + a]
                 /\ slotDef[StageOutOf(loc.aggOutSlots[a])].h = "aggOut"
                 /\ (AggStage.kind = "block_hash_agg" /\ pc # "post") <=>
                        (slotDef[loc.aggOutSlots[a]].h = "b2r")
           /\ Flatten([k \in 1..Len(Accs) |-> SliceOf(k)]) = loc.aggOutSlots
           /\ \A k \in 1..Len(Accs) :
                 /\ Len(SliceOf(k)) = Accs[k].acc.numAggs
                 /\ \A j \in 1..Len(SliceOf(k)) :
                       LET d == slotDef[StageOutOf(SliceOf(k)[j])].args[1]
                       IN d.s = Accs[k].acc.op /\ d.n = j
                 /\ \A m \in 1..Len(Accs) :
                       k # m => SeqToSet(SliceOf(k)) \cap SeqToSet(SliceOf(m)) = {}
                 /\ PastFinalStage =>
                       IF Accs[k].acc.finalizeTrivial
                       THEN loc.finalSlots[k + 1] = SliceOf(k)[1]
                       ELSE slotDef[loc.finalSlots[k + 1]] =
                               T("finalize", Accs[k].acc.op, k,
                                 [j \in 1..Len(SliceOf(k)) |-> Slot(SliceOf(k)[j])])

C22_Witness ==
    /\ Done
    /\ AggStage.kind = "block_hash_agg"
    /\ Len(Accs) = 2
    /\ Accs[1].acc = AccAvg
    /\ Accs[2].acc = AccMin
    /\ Len(SliceOf(1)) = 2
    /\ SliceOf(2) = <<loc.aggOutSlots[3]>>
    /\ slotDef[loc.aggOutSlots[3]].h = "b2r"
    /\ slotDef[loc.finalSlots[3]] = T("finalize", "min", 2, <<Slot(loc.aggOutSlots[3])>>)

\* The slots an expression reads.
RECURSIVE SlotsRead(_)
SlotsRead(e) ==
    IF e.h = "slot" THEN {e.n}
    ELSE UNION {SlotsRead(e.args[i]) : i \in 1..Len(e.args)}

\* The slots bound by the topmost projection, the one of the final stage.
FinalProjectOuts ==
    LET tops == {i \in 1..Len(stage) : stage[i].kind = "project" /\ i > AggStageIdx}
    IN UNION {SeqToSet(stage[i].outs) : i \in tops}

OtherSlices(k) == UNION {SeqToSet(SliceOf(m)) : m \in 1..Len(Accs) \ {k}}

\* C23: when buildFinalize returns no expression for a statement, the slot of
\* its output field is the first aggregate-output slot of the statement's own
\* slice itself: no projection binds a new slot for it and its value is the
\* state of the statement's first aggregate; otherwise the slot is bound by the
\* final projection to the finalize expression over exactly the slots of the
\* statement's slice, in order.  In both cases the output reads no slot of
\* another statement's slice.
C23_FinalizeForwarding ==
    (PastFinalStage /\ ContractKept) =>
        \A k \in 1..Len(Accs) :
           LET out == loc.finalSlots[k + 1]
           IN /\ IF Accs[k].acc.finalizeTrivial
                 THEN /\ out = SliceOf(k)[1]
                      /\ out \notin FinalProjectOuts
                      /\ slotDef[StageOutOf(out)].h = "aggOut"
                      /\ slotDef[StageOutOf(out)].args[1].s = Accs[k].acc.op
                      /\ slotDef[StageOutOf(out)].args[1].n = 1
                      /\ out \notin OtherSlices(k)
                 ELSE /\ out \in FinalProjectOuts
                      /\ slotDef[out].h = "finalize"
                      /\ slotDef[out].s = Accs[k].acc.op
                      /\ slotDef[out].args = [j \in 1..Len(SliceOf(k)) |-> Slot(SliceOf(k)[j])]
                      /\ SlotsRead(slotDef[out]) = SeqToSet(SliceOf(k))
                      /\ SlotsRead(slotDef[out]) \cap OtherSlices(k) = {}
              /\ Done =>
                    /\ ret.fields[<<Accs[k].fieldName>>] = out
                    /\ \A r \in GroupRows : Eval(Slot(out), <<r>>) = RefFinal(k, <<r>>)

C23_Witness ==
    /\ Done
    /\ Len(Accs) = 2
    /\ Accs[1].acc = AccAvg
    /\ Accs[2].acc = AccFirst
    /\ slotDef[loc.finalSlots[2]].h = "finalize"
    /\ loc.finalSlots[3] = loc.aggOutSlots[3]
    /\ loc.finalSlots[3] \notin FinalProjectOuts

BlockAggStages == {i \in 1..Len(stage) : stage[i].kind = "block_hash_agg"}

KeyIsConstant == IdExpr.h = "mqlConst"

ShortcutTaken == loc.idConstantValue # None

\* The number of key expressions handed to the aggregation stage when the key is
\* kept: one for a single key or for the key projected to the initializer root
\* (C21), one per part of an object key otherwise.
KeptKeyExprs == IF loc.hasVariableGroupInit THEN 1 ELSE KeyCount

\* C25: the constant-key shortcut is taken exactly when the key is a single
\* non-object expression that compiles to a constant, was not vectorized, and no
\* statement has a non-constant initializer.  Then the aggregation stage has no
\* key slot and "_id" is the constant itself; otherwise the stage has one key
\* slot per key expression and "_id" reads exactly the key-output slots.  The
\* shortcut never occurs together with the columnar aggregation stage.
C25_ConstantKeyShortcut ==
    /\ AggAssembled =>
          /\ ShortcutTaken <=> (/\ ~IsObjectKey(IdExpr)
                                /\ KeyIsConstant
                                /\ ~loc.vectorizedGroupByExprs
                                /\ ~loc.hasVariableGroupInit)
          /\ ShortcutTaken =>
                /\ AggStage.keys = <<>>
                /\ loc.groupByOutSlots = <<>>
                /\ loc.idConstantValue[1] = Const(IdExpr.args[1])
                /\ AggStage.kind = "hash_agg"
                /\ ~loc.useBlockHashAgg
          /\ ~ShortcutTaken =>
                /\ Len(AggStage.keys) = KeptKeyExprs
                /\ Len(loc.groupByOutSlots) = KeptKeyExprs
    /\ PastFinalStage =>
          LET idOut == loc.finalSlots[1]
          IN IF ShortcutTaken
             THEN /\ slotDef[idOut] = Const(IdExpr.args[1])
                  /\ idOut \in FinalProjectOuts
                  /\ Done => \A r \in GroupRows : FinalIdOf(r) = IdExpr.args[1]
             ELSE IF ~IsObjectKey(IdExpr) \/ loc.hasVariableGroupInit
                  THEN idOut = loc.groupByOutSlots[1]
                  ELSE /\ slotDef[idOut].h = "newObj"
                       /\ SlotsRead(slotDef[idOut]) = SeqToSet(loc.groupByOutSlots)

C25_Witness ==
    /\ Done
    /\ ShortcutTaken
    /\ ChildWasColumnar
    /\ AggStage.keys = <<>>
    /\ Len(Accs) >= 1

Conversions == {i \in 1..Len(stage) : stage[i].kind = "block_to_row"}

ConversionsNext == {i \in 1..Len(stage') : stage'[i].kind = "block_to_row"}

\* What a finished compilation contains.
C26_Finished ==
    Done =>
        IF ~ChildWasColumnar
        THEN Conversions = {} /\ AggStage.kind = "hash_agg"
        ELSE /\ Cardinality(Conversions) = 1
             /\ IF AggStage.kind = "hash_agg"
                THEN \A i \in Conversions : i < AggStageIdx
                ELSE /\ Conversions = {AggStageIdx + 1}
                     /\ \A i \in 1..Len(stage) :
                           (stage[i].kind = "project" /\ i > AggStageIdx) => i > AggStageIdx + 1

\* What one step of the compilation may do to the conversions.
C26_Step ==
    /\ Conversions \subseteq ConversionsNext
    /\ Cardinality(ConversionsNext) <= 1
    /\ ConversionsNext # Conversions =>
          /\ ChildWasColumnar
          /\ \A i \in ConversionsNext : i > Len(stage)
          /\ pc \in {"paths", "keys", "close", "post"}
          /\ pc = "post" <=> HasBlockAggStage(stage)
          /\ pc = "post" => ConversionsNext = {AggStageIdx + 1}
          /\ pc # "post" => AggStageIdx = 0

\* C26: a compilation over a columnar child inserts exactly one block-to-row
\* conversion and a compilation over a row child inserts none.  With the
\* row-wise stage the one conversion lies below the stage and is inserted by
\* exactly one of the field-path materializer, the key compilation or the
\* closing of the vectorized attempt; with the columnar stage no conversion lies
\* below it and the one conversion is inserted directly above it, below the
\* projection of the final stage.  No step removes a conversion or adds a second.
C26_OneConversion == []C26_Finished /\ [][C26_Step]_vars

C26_Witness ==
    /\ Done
    /\ ChildWasColumnar
    /\ AggStage.kind = "block_hash_agg"
    /\ Conversions = {AggStageIdx + 1}
    /\ Len(stage) = AggStageIdx + 2
    /\ stage[Len(stage)].kind = "project"

WholeRowNeeded ==
    \/ groupNode.needWholeDocument
    \/ \E i \in 1..Len(Accs) : SortKeysNeedWholeRow(i)

\* C27: the child is allowed to deliver columnar output, and so can only be
\* columnar, when the requirements computed for it do not ask for the result
\* object.  With needWholeDocument set, or with a sort key plan that needs the
\* result object, the child is in row mode, no conversion is ever inserted, the
\* vectorized attempt is not made and the row-wise stage is assembled.
C27_WholeRowForcesRowMode ==
    ChildReqsComputed =>
        LET cr == loc.childReqs[1]
        IN /\ cr.canProcessBlockValues <=> ~cr.result
           /\ ChildWasColumnar => (~cr.result /\ cr.canProcessBlockValues)
           /\ HasBlockOutput(childOutputs) => childOutputs.resultObj = None
           /\ WholeRowNeeded =>
                 /\ cr.result
                 /\ ~cr.canProcessBlockValues
                 /\ ~ChildWasColumnar
                 /\ ~HasBlockOutput(childOutputs)
                 /\ ~HasBlockOutput(loc.outputs)
                 /\ Conversions = {}
                 /\ ~loc.useBlockHashAgg
                 /\ loc.blockAccExprs = <<>>
                 /\ BlockAggStages = {}
                 /\ AggAssembled => AggStage.kind = "hash_agg"

C27_Witness ==
    /\ Done
    /\ env.childBlock
    /\ ~groupNode.needWholeDocument
    /\ \E i \in 1..Len(Accs) : SortKeysNeedWholeRow(i)
    /\ ~ChildWasColumnar
    /\ AggStage.kind = "hash_agg"
    /\ Conversions = {}

\* The steps that compile the child, the keys, the aggregate and merge
\* expressions and that assemble the aggregation stage.
BeforeFinalStage ==
    pc \in {"start", "paths", "keys", "decide", "attempt", "close", "rowaggs",
            "initroot", "merge", "agg", "post", "final"}

\* C28: the override of needsMerge is in effect only while the final stage is
\* built and it can only narrow the caller's value: there needsMerge is
\* willBeMerged AND the caller's value, so it is never TRUE when the caller's
\* value is FALSE.  Every step before the final stage, from the compilation of
\* the child to the assembly of the aggregation stage, and every step after it
\* sees the caller's value.
C28_MergeOverrideNarrows ==
    /\ BeforeFinalStage =>
          /\ needsMerge = env.needsMerge
          /\ loc.needsMergeInFinal = None
          /\ loc.needsMergeGuard = None
    /\ pc = "finalizing" =>
          /\ needsMerge = (groupNode.willBeMerged /\ env.needsMerge)
          /\ needsMerge => env.needsMerge
          /\ loc.needsMergeGuard[1].value = needsMerge
    /\ loc.needsMergeInFinal # None =>
          /\ loc.needsMergeInFinal[1] = (groupNode.willBeMerged /\ env.needsMerge)
          /\ loc.needsMergeInFinal[1] => env.needsMerge
          /\ needsMerge = env.needsMerge
    /\ PastFinalStage => loc.needsMergeInFinal # None

C28_Witness ==
    /\ Done
    /\ env.needsMerge
    /\ ~groupNode.willBeMerged
    /\ loc.needsMergeInFinal = Some(FALSE)
    /\ needsMerge
    /\ Len(Accs) >= 1

\* C30 as stated: after a successful buildGroup every requested field path is
\* bound to some slot under exactly the requested name.
C30_Original ==
    Done => \A p \in reqs.fields : p \in DOMAIN ret.fields

BelowProduced(p) == Len(p) > 1 /\ p[1] \in ProducedNames

\* C30: after a successful buildGroup a requested field path is bound, under
\* exactly the requested name, to a slot of the pipeline unless it is a dotted
\* path whose top-level component is "_id" or an accumulator output field: such
\* a path is left without a binding.  The returned bindings are those of the
\* produced fields and of the requested paths with another top-level component.
C30_RequestedPathsBound ==
    Done =>
        /\ \A p \in reqs.fields :
              /\ p \in DOMAIN ret.fields <=> ~BelowProduced(p)
              /\ p \in DOMAIN ret.fields => ret.fields[p] \in 1..Len(slotDef)
        /\ DOMAIN ret.fields =
              {<<n>> : n \in ProducedNames} \cup {p \in reqs.fields : p[1] \notin ProducedNames}

C30_Witness ==
    /\ Done
    /\ reqs.fields = ReqPaths \cup {<<"_id", "q">>}
    /\ "x" \in ProducedNames
    /\ "w" \notin ProducedNames
    /\ <<"_id", "q">> \notin DOMAIN ret.fields
    /\ <<"x", "q">> \notin DOMAIN ret.fields
    /\ {<<"_id">>, <<"x">>, <<"w">>, <<"w", "q">>} \subseteq DOMAIN ret.fields

\* The statement and the position in it of the entries of a flattened list.
OwnersOf(lens) ==
    Flatten([k \in 1..Len(lens) |-> [j \in 1..lens[k] |-> <<k, j>>]])

TripleCounts == [k \in 1..Len(Accs) |-> Len(loc.sbAggExprs[1][k])]

MergeCounts == [k \in 1..Len(Accs) |-> Len(loc.mergingExprs[k])]

SliceCounts == [k \in 1..Len(Accs) |-> Len(AggSlotsOf(Accs, loc.aggOutSlots, k))]

\* C29 as stated: on every successful compilation the triples, the merge
\* entries and the slice of each statement all have getNumAggs elements, the
\* flattened aggregate and merge lists of the stage have equal length, and no
\* accumulator whose update list has another length than getNumAggs compiles.
C29_Original ==
    Done =>
        /\ \A k \in 1..Len(Accs) :
              /\ TripleCounts[k] = Accs[k].acc.numAggs
              /\ MergeCounts[k] = Accs[k].acc.numAggs
              /\ SliceCounts[k] = Accs[k].acc.numAggs
        /\ Len(AggStage.aggs) = Len(AggStage.merges)
        /\ ContractKept

\* C29: once the aggregation stage is assembled, each statement has as many
\* triples as initializers and as updates, and as many merge entries as
\* getNumAggs, which is also the length of its slice in the final stage.  The
\* two numbers are never compared with each other: an accumulator whose update
\* and initializer lists are longer than getNumAggs compiles, with more
\* aggregates than merge entries in the stage and output slots that belong to
\* no slice.  For accumulators whose update list has getNumAggs elements the
\* flattened lists have equal length and entry j of each belongs to the same
\* statement and position.
C29_CountsAgree ==
    AggAssembled =>
        /\ \A k \in 1..Len(Accs) :
              /\ TripleCounts[k] = Accs[k].acc.numUpdates
              /\ TripleCounts[k] = Accs[k].acc.numInits
              /\ MergeCounts[k] = Accs[k].acc.numAggs
              /\ MergeCounts[k] = Accs[k].acc.numCombine
              /\ SliceCounts[k] = Accs[k].acc.numAggs
              /\ TripleCounts[k] >= MergeCounts[k]
        /\ AggStage.aggs = AllTriples
        /\ AggStage.merges = Flatten(loc.mergingExprs)
        /\ Len(loc.aggOutSlots) = Len(AggStage.aggs)
        /\ (Len(AggStage.aggs) = Len(AggStage.merges)) <=> ContractKept
        /\ ContractKept =>
              /\ OwnersOf(TripleCounts) = OwnersOf(MergeCounts)
              /\ OwnersOf(SliceCounts) = OwnersOf(MergeCounts)
              /\ \A j \in 1..Len(AggStage.aggs) :
                    /\ AggStage.aggs[j].rowAgg.s = Accs[OwnersOf(TripleCounts)[j][1]].acc.op
                    /\ AggStage.aggs[j].rowAgg.n = OwnersOf(TripleCounts)[j][2]
                    /\ AggStage.merges[j].expr.s = AggStage.aggs[j].rowAgg.s
                    /\ AggStage.merges[j].expr.n = AggStage.aggs[j].rowAgg.n

C29_Witness ==
    /\ Done
    /\ ~ContractKept
    /\ Len(AggStage.aggs) = 4
    /\ Len(AggStage.merges) = 3
    /\ SliceCounts = <<2, 1>>
    /\ Len(loc.aggOutSlots) = 4
====
